---- MODULE Spec2Model ----
(***************************************************************************)
(* A state-machine model of the wick_agent runtime.                        *)
(*                                                                         *)
(* Part 1 models DockerSandboxBackend                                      *)
(* (src/wick/app/agents/docker_backend.py) together with the one caller    *)
(* that creates its launch task, patch_agent_backend                       *)
(* (src/wick/app/routes/agent.py).  The event loop runs launch tasks one   *)
(* step at a time (from one await that suspends to the next); the work     *)
(* handed to asyncio.to_thread and the synchronous execute / upload_files  *)
(* / download_files calls run on other threads and interleave with it.     *)
(*                                                                         *)
(* Part 2 models the invocation routes POST /invoke and POST /stream       *)
(* (src/wick/app/routes/agent.py) over invoke_agent and stream_agent       *)
(* (src/app/agents/deep_agent.py).                                         *)
(*                                                                         *)
(* Part 3 models the MCP bridge (src/wick/app/agents/mcp_client.py): the   *)
(* session map _MCP_CLIENTS and _call_with_reconnect, one thread per tool  *)
(* call.                                                                   *)
(***************************************************************************)
EXTENDS Integers, Sequences, FiniteSets, TLC

\* ------------------------------------------------------------------------
\* Bounds of the model
\* ------------------------------------------------------------------------

\* Spec is the backend as the repository drives it: patch_agent_backend is
\* the only caller of launch_container_async and calls it once on a backend
\* it has just built, so there is one launch task; MaxCallers threads call
\* execute / upload_files / download_files.
MaxCallers == 1

\* SpecApi is the backend under any use of its public methods: further
\* launch_container_async calls, ApiTasks launch tasks in all.
ApiTasks == 2

ApiCallers == 1

\* SpecInvoke: requests to one agent instance, thread ids they may name,
\* and agent-loop steps one invocation runs
MaxRequests == 3

MaxThreads == 2

MaxLoopSteps == 2

\* SpecMcp: concurrent tool calls and MCP servers
MaxCalls == 2

MaxServers == 1

\* SpecShutdown: MCP servers connected when the application shuts down
MaxShutdownServers == 3

\* SpecToken: token requests, the clock's last value and step (seconds)
MaxTokenReqs == 3

MaxTime == 120

TickSeconds == 30

\* SpecBus: events-SSE connections
MaxBusClients == 2

\* SpecBusUsers: broadcasts, the step of the clock and the longest silence
\* that is counted (seconds)
MaxBroadcasts == 2

BusTick == 10

MaxSilence == 40

\* streams and invocations of the run configuration
MaxStreams == 1
MaxInvokes == 1

\* events one stream forwards, LLM calls one invocation makes
MaxStreamEvents == 2
MaxLlmCalls == 2

\* resume requests
MaxResumes == 2

\* messages kept for one thread id
MaxThreadMessages == 3

\* requests that go through authentication
MaxAuthReqs == 2

\* lines one model stream reads
MaxStreamLines == 3

\* calls made on one model, chunks a subclass's stream yields, default
\* methods that may be active at once
MaxModelCalls == 2
MaxChunks == 3
MaxDepth == 3

\* tool calls of one answer
MaxRawCalls == 2

\* characters a command writes to stdout
MaxOutputChars == 3

\* server processes ever started, calls the script and the command line
\* make
MaxPids == 2
MaxLauncherOps == 2
MaxCliOps == 1

\* longest "tools" list of a PATCH /tools body
MaxPatchTools == 2

\* most lines of an SSE response
MaxSseLines == 4

\* ------------------------------------------------------------------------
\* Program constants
\* ------------------------------------------------------------------------

\* for _ in range(50): passes of the polling loop of WickServer.stop, 0.1 s
\* each
StopPolls == 50

\* for _ in range(120): the number of polls of _wait_for_container
MaxPolls == 120

\* time.sleep(0.5): one poll lasts 5 tenths of a second
PollTenths == 5

\* "max 60s" of the polling loop, in tenths of a second
WaitLimitTenths == 600

\* the username that owns the backend (DockerSandboxBackend._username)
Username == "alice"

\* asyncio.Queue(maxsize=32) of events.subscribe
QueueMax == 32

\* asyncio.wait_for(q.get(), timeout=30) of agent_events
KeepAliveSeconds == 30

\* _REFRESH_BUFFER_SECONDS
RefreshBufferSeconds == 60

\* expires_in of the OAuth2 responses; the code's default is 1800
ExpiresInValues == {30, 90}

StatusValues == {"idle", "launching", "launched", "error"}

Ops == {"execute", "upload_files", "download_files"}

\* outcomes of one run of _ensure_container: it returns, it raises
\* RuntimeError (docker CLI not found), or subprocess.run(check=True,
\* timeout=60) raises CalledProcessError / TimeoutExpired
EnsureOutcomes == {"ok", "runtime_error", "subprocess_error"}

\* final positions of a launch task
TaskFinal == {"skipped", "launched", "failed", "aborted", "cancelled"}

\* final positions of a synchronous call
CallFinal == {"ran", "failed", "raised"}

VARIABLES
    \* --- the Docker backend
    container_status,   \* DockerSandboxBackend._container_status
    container_error,    \* DockerSandboxBackend._container_error ("none" = None)
    launch_task,        \* DockerSandboxBackend._launch_task (0 = None)
    launch_lock,        \* holder of DockerSandboxBackend._launch_lock (0 = free)
    lock_waiters,       \* tasks suspended in _launch_lock.acquire(), in order
    tpc,                \* position of each launch task
    tcancel,            \* Task.cancel() was requested and not yet delivered
    thr,                \* the to_thread worker of each task
    cpc,                \* position of each synchronous call
    cop,                \* which operation each synchronous call is
    polls,              \* loop counter of _wait_for_container of each call
    last_payload,       \* payload of the latest events._broadcast
    status_dirty,       \* the status changed since the latest broadcast
    \* --- invocations of one agent instance
    rpc,                \* position of each request
    rkind,              \* "invoke" (POST /invoke) or "stream" (POST /stream)
    rthread,            \* thread_id of each request
    rsteps,             \* agent-loop steps each request has run
    loop_owner,         \* request whose blocking handler holds the event loop
    thread_msgs,        \* messages checkpointed per thread_id
    \* --- the MCP bridge
    clients,            \* keys of _MCP_CLIENTS, in insertion order
    client_of,          \* session stored in _MCP_CLIENTS per server (0 = none)
    sess,               \* state of each Client session
    server_up,          \* whether each MCP server accepts connections
    mpc,                \* position of each tool call
    msrv,               \* server of each tool call
    msess,              \* session a tool call is using, closing or opening
    attempt,            \* loop variable of _call_with_reconnect
    nreconn,            \* _connect_client runs started by each tool call
    ncalls,             \* call_tool requests issued by each tool call
    mres,               \* what each tool call gave its caller
    first_dropped,      \* the first attempt failed on a dropped session
    disturbed,          \* network or server failed during the call's retry
    \* --- shutdown: close_all_mcp_clients
    shutdown_pc,        \* position of close_all_mcp_clients
    close_snapshot,     \* list(_MCP_CLIENTS.keys()) as close_all_mcp_clients took it
    closing_todo,       \* names the loop of close_all_mcp_clients has not reached
    close_cur,          \* session whose __aexit__ is running (0 = none)
    close_log,          \* servers whose session was closed, in the order of closing
    \* --- the OAuth2 token manager
    now,                \* time.time(), in seconds
    access_token,       \* GatewayTokenManager._access_token (0 = None, q = the token request q fetched)
    expires_at,         \* GatewayTokenManager._expires_at
    tk_lock,            \* holder of GatewayTokenManager._lock (0 = free)
    tk_waiters,         \* requests suspended in _lock.acquire(), in order
    tkpc,               \* position of each token request
    tkkind,             \* "async" (get_token) or "sync" (get_token_sync)
    tk_ein,             \* expires_in of the response each request received
    texp,               \* time at which the token each request fetched expires
    got,                \* token handed to each request (0 = none)
    got_margin,         \* the token handed out had more than the buffer left
    tk_checked,         \* what the latest _is_token_valid of each request gave
    \* --- the event bus and its SSE connections
    cl_pc,              \* position of each events-SSE connection (event_gen)
    subscribed,         \* the connection's queue is in events._subscribers
    queue,              \* the asyncio.Queue of each connection: payloads with the scope they were sent for
    seen,               \* scopes of the events each connection has forwarded to its client
    bcast_left,         \* broadcasts the environment may still make (-1 = any number)
    bcast_kinds,        \* the (event, username) pairs the environment broadcasts
    timed,              \* whether the clock runs in this configuration
    waited,             \* seconds each connection has spent in the current wait_for
    silent,             \* seconds since each connection last yielded a frame
    \* --- one run of the agent: stream_agent and invoke_agent
    sa_pc,              \* position of each stream_agent generator
    sa_events,          \* kinds of the events each stream has yielded to its client
    sa_exit,            \* how each generator ended: "returned", "raised" or "cancelled"
    ia_pc,              \* position of each invoke_agent call
    trace,              \* trace.events of each invoke_agent call (event types)
    llm_calls,          \* LLM calls made inside agent.invoke
    tool_calls,         \* tool calls made inside agent.invoke
    \* --- resume of an interrupted thread
    rs_pc,              \* position of each resume_agent call
    rs_decision,        \* the decision of the request
    rs_edit_args,       \* the edit_args of the request (dict | None)
    rs_input,           \* resume_input handed to agent.invoke (dict | None)
    rs_ran,             \* arguments the pending tool was run with (None if it did not run)
    rs_msgs,            \* contents of the tool messages appended to the thread by the resume
    \* --- the local sandbox backends on the host file system
    host_fs,            \* the host file system: who wrote the file at each absolute path ("nobody" = no file)
    lb_seen,            \* writers of the contents each user's LocalSandboxBackend has returned
    \* --- the checkpointer shared by the agents
    checkpoints,        \* _checkpointer: for each thread_id in use, the agents that wrote its messages and the agent with a pending interrupt
    th_owner,           \* the agent that first used each thread_id
    th_read,            \* for each agent, the agents whose messages or interrupt it has loaded
    \* --- the tool ACL check
    acl_tool,           \* the tool a request names: where it comes from and the name it is registered under
    acl_allowed,        \* the set of bare tool names the gateway allows for the token
    acl_result,         \* what _is_tool_allowed answered: "none" (not asked yet), "allowed" or "denied"
    \* --- authentication in front of the handlers
    au_pc,              \* position of each request in its handler
    au_req,             \* the route each request addresses and the gateway's answer to its token
    au_server,          \* server state by the request that changed it: subscriber queues, agent instances, container launches
    \* --- stream() of the model adapters
    ms_impl,            \* which stream() runs: "openai", "anthropic" or "default" ("none" when not part of the configuration)
    ms_pc,              \* position of the generator: "idle", "reading", "ended" or "raised"
    ms_read,            \* lines of the HTTP response read so far
    ms_pending,         \* OpenAI: indices of the tool calls being accumulated; Anthropic: {0} while current_tool is set
    ms_chunks,          \* the chunks yielded so far
    \* --- invoke() and stream() of the Model base class
    mc_overrides,       \* the method the Model subclass implements: "invoke", "stream" or "neither" ("none" when not part of the configuration)
    mc_guard,           \* Model._guard of the instance
    mc_stack,           \* the default methods that have set the guard and not yet returned, outermost first
    mc_pc,              \* "idle", "check" (a default method is entered), "implemented" (the subclass's method runs), "returning" or "raising"
    mc_cur,             \* the default method being entered
    mc_input,           \* what the subclass's own method produced in the current call
    mc_out,             \* the value, or the error, on its way to the caller
    mc_calls,           \* calls made so far
    \* --- tool call arguments in the adapters
    pa_parser,          \* the parser at work: "_parse_openai_tool_calls", "OpenAIModel.stream", "AnthropicModel.stream", "_parse_tool_calls" or "_extract_content_blocks" ("none" when not part of the configuration)
    pa_results,         \* the tool calls produced so far, each with the argument string it came from
    pa_raised,          \* the parser has raised
    \* --- output of execute
    ex_limit,           \* max_output_bytes of the backend (0 when not part of the configuration)
    ex_run,             \* what the last command wrote and returned
    ex_result,          \* the ExecuteResponse of the last execute
    \* --- load_agents_from_yaml
    ld_pc,              \* position of load_agents_from_yaml: "start", "agents" or "done" ("none" when not part of the configuration)
    ld_yaml,            \* the agents of agents.yaml: for each id the tools it lists and whether register_template accepts the rest of its configuration
    ld_available,       \* the tool registry
    ld_index,           \* position in the agents of the file of the agent loaded next
    ld_templates,       \* the template registry: for each id whether it is registered and the tool_names it got
    ld_warned,          \* the agents a "skipping unavailable tools" warning was logged for
    ld_loaded,          \* the count load_agents_from_yaml returns
    \* --- WickServer.start and WickServer.stop
    pidfile,            \* the pid in ~/.wick_deep_agent/wick_go.pid (0 = the file does not exist)
    procs,              \* the process table: each pid is "unborn", "running", "zombie" (ended, not reaped: signals to it still succeed) or "gone"
    la_pc,              \* position of each launcher: "idle", "start_status", "start_spawn", "start_write", "stop_term", "stop_poll", "stop_unlink"
    la_pid,             \* the pid the launcher's call works with: the one it spawned, or the one stop() read
    la_polls,           \* passes of the polling loop made by the stop() under way
    la_ret,             \* what the last start() returned (0 = none)
    la_detected,        \* the current or last start() found a server running
    la_spawned,         \* the current or last start() spawned a server
    la_signals,         \* the signals the current or last stop() sent
    la_sidecar,         \* the launcher's tool server thread runs
    la_ops,             \* calls the launcher has made
    \* --- the gateway ACL in the tool handlers
    gt_answer,          \* what the gateway does with GET /api/tools for the caller's token
    gt_pc,              \* position of the request: "idle" or "done" ("none" when no request is part of the configuration)
    gt_op,              \* the handler that ran: "list" (GET /tools/available) or "patch" (PATCH /{agent_id}/tools)
    gt_request,         \* the body of the PATCH request
    gt_listed,          \* the tools GET /tools/available returned
    gt_status,          \* the HTTP status of the response
    \* --- the SSE parser of the SDK client
    ps_pc,              \* position of _parse_sse: "reading" or "done" ("none" when no stream is part of the configuration)
    ps_stream,          \* the lines response.iter_lines has yielded so far
    ps_event_type,      \* event_type of _parse_sse
    ps_data_lines,      \* data_lines of _parse_sse
    ps_yielded          \* the events _parse_sse has yielded, in order

dockerVars == <<container_status, container_error, launch_task, launch_lock,
                lock_waiters, tpc, tcancel, thr, cpc, cop, polls,
                last_payload, status_dirty>>

invokeVars == <<rpc, rkind, rthread, rsteps, loop_owner, thread_msgs>>

mcpVars == <<clients, client_of, sess, server_up, mpc, msrv, msess, attempt,
             nreconn, ncalls, mres, first_dropped, disturbed>>

shutdownVars == <<shutdown_pc, close_snapshot, closing_todo, close_cur, close_log>>

tokenVars == <<now, access_token, expires_at, tk_lock, tk_waiters, tkpc, tkkind,
               tk_ein, texp, got, got_margin, tk_checked>>

busVars == <<cl_pc, subscribed, queue, seen, bcast_left, bcast_kinds, timed, waited, silent>>

runVars == <<sa_pc, sa_events, sa_exit, ia_pc, trace, llm_calls, tool_calls>>

resumeVars == <<rs_pc, rs_decision, rs_edit_args, rs_input, rs_ran, rs_msgs>>

localVars == <<host_fs, lb_seen>>

threadVars == <<checkpoints, th_owner, th_read>>

aclVars == <<acl_tool, acl_allowed, acl_result>>

authVars == <<au_pc, au_req, au_server>>

mstreamVars == <<ms_impl, ms_pc, ms_read, ms_pending, ms_chunks>>

mcallVars == <<mc_overrides, mc_guard, mc_stack, mc_pc, mc_cur, mc_input, mc_out, mc_calls>>

parseVars == <<pa_parser, pa_results, pa_raised>>

execVars == <<ex_limit, ex_run, ex_result>>

loadVars == <<ld_pc, ld_yaml, ld_available, ld_index, ld_templates, ld_warned, ld_loaded>>

launchVars == <<pidfile, procs, la_pc, la_pid, la_polls, la_ret, la_detected, la_spawned, la_signals, la_sidecar, la_ops>>

gateVars == <<gt_answer, gt_pc, gt_op, gt_request, gt_listed, gt_status>>

sseVars == <<ps_pc, ps_stream, ps_event_type, ps_data_lines, ps_yielded>>

vars == <<dockerVars, invokeVars, mcpVars, shutdownVars, tokenVars, busVars, runVars, resumeVars, localVars, threadVars, aclVars, authVars, mstreamVars, mcallVars, parseVars, execVars, loadVars, launchVars, gateVars, sseVars>>

\* what a step of one component leaves alone
nonDockerVars == <<invokeVars, mcpVars, shutdownVars, tokenVars, busVars, runVars, resumeVars, localVars, threadVars, aclVars, authVars, mstreamVars, mcallVars, parseVars, execVars, loadVars, launchVars, gateVars, sseVars>>

nonInvokeVars == <<dockerVars, mcpVars, shutdownVars, tokenVars, busVars, runVars, resumeVars, localVars, threadVars, aclVars, authVars, mstreamVars, mcallVars, parseVars, execVars, loadVars, launchVars, gateVars, sseVars>>

nonMcpVars == <<dockerVars, invokeVars, shutdownVars, tokenVars, busVars, runVars, resumeVars, localVars, threadVars, aclVars, authVars, mstreamVars, mcallVars, parseVars, execVars, loadVars, launchVars, gateVars, sseVars>>

nonShutdownVars == <<dockerVars, invokeVars, mcpVars, tokenVars, busVars, runVars, resumeVars, localVars, threadVars, aclVars, authVars, mstreamVars, mcallVars, parseVars, execVars, loadVars, launchVars, gateVars, sseVars>>

nonTokenVars == <<dockerVars, invokeVars, mcpVars, shutdownVars, busVars, runVars, resumeVars, localVars, threadVars, aclVars, authVars, mstreamVars, mcallVars, parseVars, execVars, loadVars, launchVars, gateVars, sseVars>>

nonBusVars == <<dockerVars, invokeVars, mcpVars, shutdownVars, tokenVars, runVars, resumeVars, localVars, threadVars, aclVars, authVars, mstreamVars, mcallVars, parseVars, execVars, loadVars, launchVars, gateVars, sseVars>>

nonRunVars == <<dockerVars, invokeVars, mcpVars, shutdownVars, tokenVars, busVars, resumeVars, localVars, threadVars, aclVars, authVars, mstreamVars, mcallVars, parseVars, execVars, loadVars, launchVars, gateVars, sseVars>>

nonResumeVars == <<dockerVars, invokeVars, mcpVars, shutdownVars, tokenVars, busVars, runVars, localVars, threadVars, aclVars, authVars, mstreamVars, mcallVars, parseVars, execVars, loadVars, launchVars, gateVars, sseVars>>

nonLocalVars == <<dockerVars, invokeVars, mcpVars, shutdownVars, tokenVars, busVars, runVars, resumeVars, threadVars, aclVars, authVars, mstreamVars, mcallVars, parseVars, execVars, loadVars, launchVars, gateVars, sseVars>>

nonThreadVars == <<dockerVars, invokeVars, mcpVars, shutdownVars, tokenVars, busVars, runVars, resumeVars, localVars, aclVars, authVars, mstreamVars, mcallVars, parseVars, execVars, loadVars, launchVars, gateVars, sseVars>>

nonAclVars == <<dockerVars, invokeVars, mcpVars, shutdownVars, tokenVars, busVars, runVars, resumeVars, localVars, threadVars, authVars, mstreamVars, mcallVars, parseVars, execVars, loadVars, launchVars, gateVars, sseVars>>

nonAuthVars == <<dockerVars, invokeVars, mcpVars, shutdownVars, tokenVars, busVars, runVars, resumeVars, localVars, threadVars, aclVars, mstreamVars, mcallVars, parseVars, execVars, loadVars, launchVars, gateVars, sseVars>>

nonMstreamVars == <<dockerVars, invokeVars, mcpVars, shutdownVars, tokenVars, busVars, runVars, resumeVars, localVars, threadVars, aclVars, authVars, mcallVars, parseVars, execVars, loadVars, launchVars, gateVars, sseVars>>

nonMcallVars == <<dockerVars, invokeVars, mcpVars, shutdownVars, tokenVars, busVars, runVars, resumeVars, localVars, threadVars, aclVars, authVars, mstreamVars, parseVars, execVars, loadVars, launchVars, gateVars, sseVars>>

nonParseVars == <<dockerVars, invokeVars, mcpVars, shutdownVars, tokenVars, busVars, runVars, resumeVars, localVars, threadVars, aclVars, authVars, mstreamVars, mcallVars, execVars, loadVars, launchVars, gateVars, sseVars>>

nonExecVars == <<dockerVars, invokeVars, mcpVars, shutdownVars, tokenVars, busVars, runVars, resumeVars, localVars, threadVars, aclVars, authVars, mstreamVars, mcallVars, parseVars, loadVars, launchVars, gateVars, sseVars>>

nonLoadVars == <<dockerVars, invokeVars, mcpVars, shutdownVars, tokenVars, busVars, runVars, resumeVars, localVars, threadVars, aclVars, authVars, mstreamVars, mcallVars, parseVars, execVars, launchVars, gateVars, sseVars>>

nonLaunchVars == <<dockerVars, invokeVars, mcpVars, shutdownVars, tokenVars, busVars, runVars, resumeVars, localVars, threadVars, aclVars, authVars, mstreamVars, mcallVars, parseVars, execVars, loadVars, gateVars, sseVars>>

nonGateVars == <<dockerVars, invokeVars, mcpVars, shutdownVars, tokenVars, busVars, runVars, resumeVars, localVars, threadVars, aclVars, authVars, mstreamVars, mcallVars, parseVars, execVars, loadVars, launchVars, sseVars>>

nonSseVars == <<dockerVars, invokeVars, mcpVars, shutdownVars, tokenVars, busVars, runVars, resumeVars, localVars, threadVars, aclVars, authVars, mstreamVars, mcallVars, parseVars, execVars, loadVars, launchVars, gateVars>>

\* the launch tasks and the calling threads of the configuration
Tasks == DOMAIN tpc

Callers == DOMAIN cpc

\* ------------------------------------------------------------------------
\* events._broadcast, as far as the backend is concerned
\* ------------------------------------------------------------------------

\* payload = f"{event}:{username}" if username else event
Payload(event, username) ==
    IF username = "" THEN <<event>> ELSE <<event, username>>

\* await events._broadcast("container_status", username=self._username).
\* _subscriber_lock is never held across a suspension, so the call does not
\* suspend the task.
BroadcastStatus ==
    /\ last_payload' = Payload("container_status", Username)
    /\ status_dirty' = FALSE

\* an assignment to _container_status outside a broadcast
SetStatus(s) ==
    /\ container_status' = s
    /\ status_dirty' = (status_dirty \/ s # container_status)

\* ------------------------------------------------------------------------
\* Initial state: DockerSandboxBackend.__init__
\* ------------------------------------------------------------------------

DockerInit(nTasks, nCallers) ==
    /\ container_status = "idle"
    /\ container_error = "none"
    /\ launch_task = 0
    /\ launch_lock = 0
    /\ lock_waiters = <<>>
    /\ tpc = [t \in 1..nTasks |-> "unborn"]
    /\ tcancel = [t \in 1..nTasks |-> FALSE]
    /\ thr = [t \in 1..nTasks |-> "none"]
    /\ cpc = [c \in 1..nCallers |-> "none"]
    /\ cop = [c \in 1..nCallers |-> "execute"]
    /\ polls = [c \in 1..nCallers |-> 0]
    /\ last_payload = <<>>
    /\ status_dirty = FALSE

\* no request has arrived; every thread's checkpoint is empty
InvokeInit(nRequests, nThreads) ==
    /\ rpc = [r \in 1..nRequests |-> "idle"]
    /\ rkind = [r \in 1..nRequests |-> "invoke"]
    /\ rthread = [r \in 1..nRequests |-> 0]
    /\ rsteps = [r \in 1..nRequests |-> 0]
    /\ loop_owner = 0
    /\ thread_msgs = [h \in 1..nThreads |-> 0]

\* load_mcp_tools has connected every server: session i serves server i
McpInit(nServers, nCalls) ==
    /\ clients = [i \in 1..nServers |-> i]
    /\ client_of = [s \in 1..nServers |-> s]
    /\ sess = [i \in 1..(nServers + nCalls) |->
                  IF i <= nServers THEN "open" ELSE "unused"]
    /\ server_up = [s \in 1..nServers |-> TRUE]
    /\ mpc = [k \in 1..nCalls |-> "idle"]
    /\ msrv = [k \in 1..nCalls |-> 0]
    /\ msess = [k \in 1..nCalls |-> 0]
    /\ attempt = [k \in 1..nCalls |-> 0]
    /\ nreconn = [k \in 1..nCalls |-> 0]
    /\ ncalls = [k \in 1..nCalls |-> 0]
    /\ mres = [k \in 1..nCalls |-> "none"]
    /\ first_dropped = [k \in 1..nCalls |-> FALSE]
    /\ disturbed = [k \in 1..nCalls |-> FALSE]


\* close_all_mcp_clients has not been called
ShutdownInit ==
    /\ shutdown_pc = "idle"
    /\ close_snapshot = <<>>
    /\ closing_todo = <<>>
    /\ close_cur = 0
    /\ close_log = <<>>

\* GatewayTokenManager.__init__: nothing cached, the lock free
TokenInit(nReqs) ==
    /\ now = 0
    /\ access_token = 0
    /\ expires_at = 0
    /\ tk_lock = 0
    /\ tk_waiters = <<>>
    /\ tkpc = [q \in 1..nReqs |-> "idle"]
    /\ tkkind = [q \in 1..nReqs |-> "async"]
    /\ tk_ein = [q \in 1..nReqs |-> 0]
    /\ texp = [q \in 1..nReqs |-> 0]
    /\ got = [q \in 1..nReqs |-> 0]
    /\ got_margin = [q \in 1..nReqs |-> FALSE]
    /\ tk_checked = [q \in 1..nReqs |-> "none"]

\* no connection is open, _subscribers is empty
BusInit(nClients, kinds, limit, clock) ==
    /\ cl_pc = [c \in 1..nClients |-> "closed"]
    /\ subscribed = [c \in 1..nClients |-> FALSE]
    /\ queue = [c \in 1..nClients |-> <<>>]
    /\ seen = [c \in 1..nClients |-> {}]
    /\ bcast_left = limit
    /\ bcast_kinds = kinds
    /\ timed = clock
    /\ waited = [c \in 1..nClients |-> 0]
    /\ silent = [c \in 1..nClients |-> 0]

\* the bus is not part of the configuration
NoBus == BusInit(0, {}, 0, FALSE)

\* no stream has been requested, no invocation made
RunInit(nStreams, nInvokes) ==
    /\ sa_pc = [r \in 1..nStreams |-> "idle"]
    /\ sa_events = [r \in 1..nStreams |-> <<>>]
    /\ sa_exit = [r \in 1..nStreams |-> "none"]
    /\ ia_pc = [i \in 1..nInvokes |-> "idle"]
    /\ trace = [i \in 1..nInvokes |-> <<>>]
    /\ llm_calls = [i \in 1..nInvokes |-> 0]
    /\ tool_calls = [i \in 1..nInvokes |-> 0]

\* no resume has been requested
ResumeInit(nResumes) ==
    /\ rs_pc = [r \in 1..nResumes |-> "idle"]
    /\ rs_decision = [r \in 1..nResumes |-> "none"]
    /\ rs_edit_args = [r \in 1..nResumes |-> [none |-> TRUE, items |-> {}]]
    /\ rs_input = [r \in 1..nResumes |-> [none |-> TRUE, items |-> {}]]
    /\ rs_ran = [r \in 1..nResumes |-> [none |-> TRUE, items |-> {}]]
    /\ rs_msgs = [r \in 1..nResumes |-> <<>>]

\* no file exists, nothing has been read; one backend per user
LocalInit(users) ==
    /\ lb_seen = [u \in users |-> {}]
    /\ host_fs = [f \in {} |-> "nobody"]

\* the MemorySaver is empty, no agent has run
ThreadInit(agents) ==
    /\ checkpoints = [t \in {} |-> 0]
    /\ th_owner = [t \in {} |-> 0]
    /\ th_read = [a \in agents |-> {}]

\* the request and the gateway's answer are drawn from the given sets
AclInit(tools, alloweds) ==
    /\ acl_tool \in tools
    /\ acl_allowed \in alloweds
    /\ acl_result = "none"

\* no tool check is part of the configuration
NoTool == [kind |-> "none", server |-> <<>>, tool |-> <<>>, name |-> <<>>]

\* no request has arrived; nothing is subscribed, cloned or launched
AuthInit(nReqs) ==
    /\ au_pc = [r \in 1..nReqs |-> "new"]
    /\ au_req = [r \in 1..nReqs |-> [route |-> "none", answer |-> "none"]]
    /\ au_server = [subscribers |-> {}, instances |-> {}, launches |-> {}]

\* the generator of one of the implementations has been created
ModelStreamInit(impls) ==
    /\ ms_impl \in impls
    /\ ms_pc = "idle"
    /\ ms_read = 0
    /\ ms_pending = {}
    /\ ms_chunks = <<>>

\* a model instance has been constructed, _guard is False
ModelCallInit(kinds) ==
    /\ mc_overrides \in kinds
    /\ mc_guard = FALSE
    /\ mc_stack = <<>>
    /\ mc_pc = "idle"
    /\ mc_cur = "invoke"
    /\ mc_input = [kind |-> "none", content |-> <<>>, tool_calls |-> <<>>, chunks |-> <<>>]
    /\ mc_out = [kind |-> "none", content |-> <<>>, tool_calls |-> <<>>, chunks |-> <<>>]
    /\ mc_calls = 0

\* a parser is about to go through the tool calls of an answer
ParseInit(parsers) ==
    /\ pa_parser \in parsers
    /\ pa_results = <<>>
    /\ pa_raised = FALSE

\* a backend has been constructed with max_output_bytes = limit
ExecInit(limits) ==
    /\ ex_limit \in limits
    /\ ex_run = [ran |-> FALSE, stdout |-> <<>>, stderr |-> <<>>, returncode |-> 0]
    /\ ex_result = [output |-> <<>>, exit_code |-> 0, truncated |-> FALSE]

\* agents.yaml has been written, the server starts
LoadInit(on) ==
    /\ ld_pc = IF on THEN "start" ELSE "none"
    /\ ld_yaml \in IF on THEN [{"a1", "a2"} -> [tools : {<<>>, <<"calculator">>, <<"mcp_wick_search">>,
                                                     <<"calculator", "mcp_wick_search">>,
                                                     <<"mcp_wick_search", "calculator">>, <<"ghost">>},
                                            valid : BOOLEAN]]
                 ELSE {<<>>}
    /\ ld_available = {"calculator"}
    /\ ld_index = 1
    /\ ld_templates = [a \in DOMAIN ld_yaml |-> [registered |-> FALSE, tool_names |-> <<>>]]
    /\ ld_warned = {}
    /\ ld_loaded = 0

\* the launchers exist, no server runs, there is no pid file
LaunchInit(launchers) ==
    /\ pidfile = 0
    /\ procs = [p \in 1..MaxPids |-> "unborn"]
    /\ la_pc = [l \in launchers |-> "idle"]
    /\ la_pid = [l \in launchers |-> 0]
    /\ la_polls = [l \in launchers |-> 0]
    /\ la_ret = [l \in launchers |-> 0]
    /\ la_detected = [l \in launchers |-> FALSE]
    /\ la_spawned = [l \in launchers |-> FALSE]
    /\ la_signals = [l \in launchers |-> <<>>]
    /\ la_sidecar = [l \in launchers |-> FALSE]
    /\ la_ops = [l \in launchers |-> 0]

\* no tool handler is called
NoGatewayAnswer == [kind |-> "none", status |-> 0, tools |-> {}]

\* a caller with a token, before its request to a tool handler
GateInit(answers) ==
    /\ gt_answer \in answers
    /\ gt_pc = IF gt_answer.kind = "none" THEN "none" ELSE "idle"
    /\ gt_op = "none"
    /\ gt_request = [has_list |-> FALSE, tools |-> <<>>]
    /\ gt_listed = <<>>
    /\ gt_status = 0

\* event_type = None
NoEventType == <<"<None>">>

\* _parse_sse is called on a streaming response
SseInit(on) ==
    /\ ps_pc = IF on THEN "reading" ELSE "none"
    /\ ps_stream = <<>>
    /\ ps_event_type = NoEventType
    /\ ps_data_lines = <<>>
    /\ ps_yielded = <<>>

\* ------------------------------------------------------------------------
\* patch_agent_backend and launch_container_async (event-loop side)
\* ------------------------------------------------------------------------

\* the backend as update_agent_backend has just constructed it
Fresh ==
    /\ container_status = "idle"
    /\ container_error = "none"
    /\ \A t \in Tasks : tpc[t] = "unborn"
    /\ \A c \in Callers : cpc[c] = "none"

\* the lowest task id not yet used
NextTask == CHOOSE t \in Tasks : tpc[t] = "unborn" /\ \A u \in Tasks : u < t => tpc[u] # "unborn"

\* patch_agent_backend: pre-set the status, create the task, track it
PatchAgentBackend ==
    /\ Fresh
    /\ SetStatus("launching")
    /\ container_error' = "none"
    /\ tpc' = [tpc EXCEPT ![NextTask] = "pending"]
    /\ launch_task' = NextTask
    /\ UNCHANGED <<nonDockerVars, launch_lock, lock_waiters, tcancel, thr, cpc, cop, polls, last_payload>>

\* a further call of launch_container_async, not tracked in _launch_task
LaunchContainerAsync ==
    /\ \E t \in Tasks : tpc[t] = "unborn"
    /\ tpc' = [tpc EXCEPT ![NextTask] = "pending"]
    /\ UNCHANGED <<nonDockerVars, container_status, container_error, launch_task, launch_lock,
                   lock_waiters, tcancel, thr, cpc, cop, polls, last_payload, status_dirty>>

\* the body of "async with self._launch_lock" up to asyncio.to_thread
EnterLocked(t) ==
    IF container_status = "launched"
    THEN /\ tpc' = [tpc EXCEPT ![t] = "skipped"]
         /\ launch_lock' = 0
         /\ UNCHANGED <<container_status, container_error, thr, last_payload, status_dirty>>
    ELSE /\ container_status' = "launching"
         /\ container_error' = "none"
         /\ BroadcastStatus
         /\ tpc' = [tpc EXCEPT ![t] = "ensuring"]
         /\ thr' = [thr EXCEPT ![t] = "running"]
         /\ launch_lock' = t

\* first step of the task: a cancellation requested before it never lets the
\* coroutine body run; otherwise it runs up to its first suspension
TaskStart(t) ==
    /\ tpc[t] = "pending"
    /\ IF tcancel[t]
       THEN /\ tpc' = [tpc EXCEPT ![t] = "cancelled"]
            /\ tcancel' = [tcancel EXCEPT ![t] = FALSE]
            /\ UNCHANGED <<container_status, container_error, launch_lock,
                           lock_waiters, thr, last_payload, status_dirty>>
       ELSE IF launch_lock # 0 \/ lock_waiters # <<>>
       THEN /\ tpc' = [tpc EXCEPT ![t] = "lockwait"]
            /\ lock_waiters' = Append(lock_waiters, t)
            /\ UNCHANGED <<container_status, container_error, launch_lock,
                           tcancel, thr, last_payload, status_dirty>>
       ELSE /\ EnterLocked(t)
            /\ UNCHANGED <<lock_waiters, tcancel>>
    /\ UNCHANGED <<nonDockerVars, launch_task, cpc, cop, polls>>

\* the first waiter gets the released lock
TaskLockAcquired(t) ==
    /\ tpc[t] = "lockwait"
    /\ ~tcancel[t]
    /\ launch_lock = 0
    /\ lock_waiters # <<>>
    /\ Head(lock_waiters) = t
    /\ lock_waiters' = Tail(lock_waiters)
    /\ EnterLocked(t)
    /\ UNCHANGED <<nonDockerVars, launch_task, tcancel, cpc, cop, polls>>

\* lock_waiters without task t
WithoutWaiter(t) == SelectSeq(lock_waiters, LAMBDA u : u # t)

\* CancelledError delivered while the task waits for the lock: it leaves
\* launch_container_async before the try block
TaskCancelledWaiting(t) ==
    /\ tpc[t] = "lockwait"
    /\ tcancel[t]
    /\ tpc' = [tpc EXCEPT ![t] = "cancelled"]
    /\ tcancel' = [tcancel EXCEPT ![t] = FALSE]
    /\ lock_waiters' = WithoutWaiter(t)
    /\ UNCHANGED <<nonDockerVars, container_status, container_error, launch_task, launch_lock,
                   thr, cpc, cop, polls, last_payload, status_dirty>>

\* the worker thread of asyncio.to_thread(self._ensure_container) ends; a
\* worker whose task was cancelled runs on to its end all the same
ThreadFinish(t, o) ==
    /\ thr[t] = "running"
    /\ thr' = [thr EXCEPT ![t] = IF tpc[t] = "ensuring" THEN o ELSE "none"]
    /\ UNCHANGED <<nonDockerVars, container_status, container_error, launch_task, launch_lock,
                   lock_waiters, tpc, tcancel, cpc, cop, polls, last_payload, status_dirty>>

\* status and error that launch_container_async sets for an outcome
StatusAfterLaunch(o) == IF o = "ok" THEN "launched" ELSE "error"

ErrorAfterLaunch(o) == IF o = "ok" THEN container_error ELSE o

\* the task resumes after to_thread: launched, or error with the message
TaskResume(t) ==
    /\ tpc[t] = "ensuring"
    /\ ~tcancel[t]
    /\ thr[t] \in EnsureOutcomes
    /\ container_status' = StatusAfterLaunch(thr[t])
    /\ container_error' = ErrorAfterLaunch(thr[t])
    /\ BroadcastStatus
    /\ tpc' = [tpc EXCEPT ![t] = IF thr[t] = "ok" THEN "launched" ELSE "failed"]
    /\ thr' = [thr EXCEPT ![t] = "none"]
    /\ launch_lock' = 0
    /\ UNCHANGED <<nonDockerVars, launch_task, lock_waiters, tcancel, cpc, cop, polls>>

\* except asyncio.CancelledError: status idle, return (no broadcast)
TaskAbort(t) ==
    /\ tpc[t] = "ensuring"
    /\ tcancel[t]
    /\ SetStatus("idle")
    /\ tpc' = [tpc EXCEPT ![t] = "aborted"]
    /\ tcancel' = [tcancel EXCEPT ![t] = FALSE]
    /\ thr' = [thr EXCEPT ![t] = IF thr[t] = "running" THEN "running" ELSE "none"]
    /\ launch_lock' = 0
    /\ UNCHANGED <<nonDockerVars, container_error, launch_task, lock_waiters, cpc, cop, polls, last_payload>>

\* cancel_launch: cancel the tracked task unless it is done, and forget it
CancelLaunch ==
    /\ launch_task # 0
    /\ tpc[launch_task] \notin TaskFinal
    /\ tcancel' = [tcancel EXCEPT ![launch_task] = TRUE]
    /\ launch_task' = 0
    /\ UNCHANGED <<nonDockerVars, container_status, container_error, launch_lock, lock_waiters,
                   tpc, thr, cpc, cop, polls, last_payload, status_dirty>>

\* stop_container: docker rm -f, then idle and no error
StopContainer ==
    /\ SetStatus("idle")
    /\ container_error' = "none"
    /\ UNCHANGED <<nonDockerVars, launch_task, launch_lock, lock_waiters, tpc, tcancel, thr,
                   cpc, cop, polls, last_payload>>

\* ------------------------------------------------------------------------
\* execute / upload_files / download_files (caller threads)
\* ------------------------------------------------------------------------

\* where a call ends when _wait_for_container raises RuntimeError: execute
\* catches it and returns an error response, upload and download let it out
OnRuntimeError(op) == IF op = "execute" THEN "failed" ELSE "raised"

\* where a call ends when the _ensure_container it runs itself raises
OnEnsureFailure(op, o) == IF o = "runtime_error" THEN OnRuntimeError(op) ELSE "raised"

\* the first tests of _wait_for_container
WaitEntry(op, status) ==
    CASE status = "launched"  -> "ready"
      [] status = "idle"      -> "ensuring"
      [] status = "launching" -> "polling"
      [] OTHER                -> OnRuntimeError(op)

\* a call begins; execute first rejects an empty command
CallStart(c, op, valid) ==
    /\ cpc[c] = "none"
    /\ cop' = [cop EXCEPT ![c] = op]
    /\ cpc' = [cpc EXCEPT ![c] =
                  IF op = "execute" /\ ~valid THEN "failed"
                  ELSE WaitEntry(op, container_status)]
    /\ UNCHANGED <<nonDockerVars, container_status, container_error, launch_task, launch_lock,
                   lock_waiters, tpc, tcancel, thr, polls, last_payload, status_dirty>>

\* the call's own _ensure_container ends: launched on success, and on an
\* exception the status is left as it is
CallEnsureDone(c, o) ==
    /\ cpc[c] = "ensuring"
    /\ IF o = "ok"
       THEN /\ SetStatus("launched")
            /\ cpc' = [cpc EXCEPT ![c] = "ready"]
       ELSE /\ cpc' = [cpc EXCEPT ![c] = OnEnsureFailure(cop[c], o)]
            /\ UNCHANGED <<container_status, status_dirty>>
    /\ UNCHANGED <<nonDockerVars, container_error, launch_task, launch_lock, lock_waiters, tpc,
                   tcancel, thr, cop, polls, last_payload>>

\* PollStep with the loop bound off by one
PollStepOneMore(op, status, n) ==
    CASE status = "launched"          -> "ready"
      [] status \in {"error", "idle"} -> OnRuntimeError(op)
      [] n + 1 > MaxPolls             -> OnRuntimeError(op)
      [] OTHER                        -> "polling"

\* one round of the polling loop, n being the number of rounds done before
\* it: sleep, then read the status
PollStep(op, status, n) ==
    CASE status = "launched"          -> "ready"
      [] status \in {"error", "idle"} -> OnRuntimeError(op)
      [] n + 1 >= MaxPolls            -> OnRuntimeError(op)
      [] OTHER                        -> "polling"

CallPoll(c) ==
    /\ cpc[c] = "polling"
    /\ cpc' = [cpc EXCEPT ![c] = PollStep(cop[c], container_status, polls[c])]
    /\ polls' = [polls EXCEPT ![c] = IF cpc'[c] = "polling" THEN polls[c] + 1 ELSE 0]
    /\ UNCHANGED <<nonDockerVars, container_status, container_error, launch_task, launch_lock,
                   lock_waiters, tpc, tcancel, thr, cop, last_payload, status_dirty>>

\* the container is ready: docker exec runs the command or the transfer
CallRun(c) ==
    /\ cpc[c] = "ready"
    /\ cpc' = [cpc EXCEPT ![c] = "ran"]
    /\ UNCHANGED <<nonDockerVars, container_status, container_error, launch_task, launch_lock,
                   lock_waiters, tpc, tcancel, thr, cop, polls, last_payload, status_dirty>>

\* ------------------------------------------------------------------------
\* The Docker backend as a whole
\* ------------------------------------------------------------------------

\* the steps of the launch task and of its worker thread
TaskSteps ==
    \/ \E t \in Tasks : TaskStart(t)
    \/ \E t \in Tasks, o \in EnsureOutcomes : ThreadFinish(t, o)
    \/ \E t \in Tasks : TaskResume(t)
    \/ \E t \in Tasks : TaskAbort(t)

\* the steps of the calling threads
CallSteps ==
    \/ \E c \in Callers, op \in Ops, valid \in BOOLEAN : CallStart(c, op, valid)
    \/ \E c \in Callers, o \in EnsureOutcomes : CallEnsureDone(c, o)
    \/ \E c \in Callers : CallPoll(c)
    \/ \E c \in Callers : CallRun(c)

Init == DockerInit(1, MaxCallers) /\ InvokeInit(0, 0) /\ McpInit(0, 0) /\ ShutdownInit /\ TokenInit(0) /\ NoBus /\ RunInit(0, 0) /\ ResumeInit(0) /\ LocalInit({}) /\ ThreadInit({}) /\ AclInit({NoTool}, {{}}) /\ AuthInit(0) /\ ModelStreamInit({"none"}) /\ ModelCallInit({"none"}) /\ ParseInit({"none"}) /\ ExecInit({0}) /\ LoadInit(FALSE) /\ LaunchInit({}) /\ GateInit({NoGatewayAnswer}) /\ SseInit(FALSE)

Next ==
    \/ PatchAgentBackend
    \/ TaskSteps
    \/ CancelLaunch
    \/ StopContainer
    \/ CallSteps

Spec == Init /\ [][Next]_vars

ApiInit == DockerInit(ApiTasks, ApiCallers) /\ InvokeInit(0, 0) /\ McpInit(0, 0) /\ ShutdownInit /\ TokenInit(0) /\ NoBus /\ RunInit(0, 0) /\ ResumeInit(0) /\ LocalInit({}) /\ ThreadInit({}) /\ AclInit({NoTool}, {{}}) /\ AuthInit(0) /\ ModelStreamInit({"none"}) /\ ModelCallInit({"none"}) /\ ParseInit({"none"}) /\ ExecInit({0}) /\ LoadInit(FALSE) /\ LaunchInit({}) /\ GateInit({NoGatewayAnswer}) /\ SseInit(FALSE)

ApiNext ==
    \/ Next
    \/ LaunchContainerAsync
    \/ \E t \in Tasks : TaskLockAcquired(t)
    \/ \E t \in Tasks : TaskCancelledWaiting(t)

SpecApi == ApiInit /\ [][ApiNext]_vars

TypeOK ==
    /\ container_status \in StatusValues
    /\ launch_task \in Tasks \cup {0}
    /\ launch_lock \in Tasks \cup {0}
    /\ \A c \in Callers : polls[c] \in 0..MaxPolls

\* ------------------------------------------------------------------------
\* Properties of the Docker backend
\* ------------------------------------------------------------------------

\* no launch task and no call is under way
Quiescent ==
    /\ \A t \in Tasks : tpc[t] \in TaskFinal \cup {"unborn"}
    /\ \A c \in Callers : cpc[c] \in CallFinal \cup {"none"}

\* the edges of the documented status machine
StatusEdges ==
    { <<"idle", "launching">>, <<"launching", "launched">>, <<"launching", "error">>,
      <<"launched", "idle">>, <<"launching", "idle">>, <<"error", "launching">> }

\* C1: the status is always one of idle, launching, launched, error, and every
\* change of it follows one of the edges idle->launching, launching->launched,
\* launching->error, launched->idle, launching->idle, error->launching.
C1_StatusFollowsEdges ==
    /\ [](container_status \in StatusValues)
    /\ [][container_status' # container_status
            => <<container_status, container_status'>> \in StatusEdges]_vars

\* C1 (the part the code keeps): the status is always one of the four values.
C1_StatusInRange == container_status \in StatusValues

\* C2: a call of execute / upload_files / download_files that finds the
\* backend idle puts it into launching, and the launch it starts ends with the
\* status launched or error.
C2_LazyLaunchReachesLaunchedOrError ==
    /\ [][\A c \in Callers : (cpc[c] = "none" /\ cpc'[c] = "ensuring")
            => container_status' = "launching"]_vars
    /\ [][\A c \in Callers : (cpc[c] = "ensuring" /\ cpc'[c] # "ensuring")
            => container_status' \in {"launched", "error"}]_vars

\* C3: once every operation has run to its end, the latest change of the
\* status has been followed by a container_status broadcast scoped to the
\* owner of the backend.
C3_EveryChangeBroadcast ==
    Quiescent =>
        /\ ~status_dirty
        /\ last_payload \in {<<>>, <<"container_status", Username>>}

\* C4: the step that delivers a cancellation to the launch task leaves the
\* status idle, whether the task had not started, or was creating the
\* container; and a cancelled launch sets neither launched nor error.
C4_CancelReturnsToIdle ==
    /\ [][\A t \in Tasks : (tcancel[t] /\ ~tcancel'[t]) => container_status' = "idle"]_vars
    /\ [][\A t \in Tasks : (tcancel[t] /\ tpc'[t] # tpc[t])
            => tpc'[t] \notin {"launched", "failed"}]_vars

\* C5: the step that ends a failed launch leaves the status error and
\* container_error set, for the launch task and for the launch a call runs
\* itself from idle.
C5_FailedLaunchSetsError ==
    /\ [][\A t \in Tasks : (tpc[t] = "ensuring" /\ tpc'[t] = "failed")
            => (container_status' = "error" /\ container_error' # "none")]_vars
    /\ [][\A c \in Callers : (cpc[c] = "ensuring" /\ cpc'[c] \in {"failed", "raised"})
            => (container_status' = "error" /\ container_error' # "none")]_vars

\* C5 (the part the code keeps): a failed launch task sets error and the message.
C5_FailedTaskSetsError ==
    [][\A t \in Tasks : (tpc[t] = "ensuring" /\ tpc'[t] = "failed")
            => (container_status' = "error" /\ container_error' # "none")]_vars

\* time a polling call has slept so far, in tenths of a second
Waited(c) == polls[c] * PollTenths

\* C6: a call that found the status launching sleeps 60 s at most, its next
\* sleep included; it leaves the loop for the command exactly when it reads
\* launched, never stays in the loop once it has read launched, and when it
\* leaves without launched it has failed for good, the command not run.
C6_PollingBounded ==
    /\ [](\A c \in Callers : cpc[c] = "polling" => Waited(c) + PollTenths <= WaitLimitTenths)
    /\ [][\A c \in Callers : (cpc[c] = "polling" /\ cpc'[c] # "polling") =>
            IF container_status = "launched"
            THEN cpc'[c] = "ready"
            ELSE cpc'[c] \in {"failed", "raised"}]_vars
    /\ [][\A c \in Callers : (cpc[c] = "polling" /\ polls'[c] # polls[c] /\ cpc'[c] = "polling")
            => container_status # "launched"]_vars
    /\ [][\A c \in Callers : cpc[c] \in {"failed", "raised"} => cpc'[c] = cpc[c]]_vars

\* a call is in its last round of polling
C6_Witness == \E c \in Callers : cpc[c] = "polling" /\ polls[c] = MaxPolls - 1

\* executions of _ensure_container under way: worker threads of launch
\* tasks, cancelled ones included, and calls that found the status idle
EnsuresInProgress ==
    Cardinality({t \in Tasks : thr[t] = "running"})
        + Cardinality({c \in Callers : cpc[c] = "ensuring"})

\* C34: at most one execution of _ensure_container is under way
C34_OneLaunchAtATime == EnsuresInProgress <= 1

\* C35: execute never raises
C35_ExecuteNeverRaises == \A c \in Callers : cop[c] = "execute" => cpc[c] # "raised"

\* ------------------------------------------------------------------------
\* Invocations: POST /invoke and POST /stream of one agent instance
\* ------------------------------------------------------------------------

Requests == DOMAIN rpc

Threads == DOMAIN thread_msgs

Kinds == {"invoke", "stream"}

\* invoke: the handler awaits _resolve_user and then calls invoke_agent,
\* a synchronous function, so the event loop runs nothing else until the
\* handler returns
InvokeBegin(r, h) ==
    /\ rpc[r] = "idle"
    /\ loop_owner = 0
    /\ rpc' = [rpc EXCEPT ![r] = "running"]
    /\ rkind' = [rkind EXCEPT ![r] = "invoke"]
    /\ rthread' = [rthread EXCEPT ![r] = h]
    /\ loop_owner' = r
    /\ UNCHANGED <<nonInvokeVars, rsteps, thread_msgs>>

\* stream: event_generator iterates stream_agent, an async generator that
\* suspends at every event of agent.astream_events
StreamBegin(r, h) ==
    /\ rpc[r] = "idle"
    /\ loop_owner = 0
    /\ rpc' = [rpc EXCEPT ![r] = "running"]
    /\ rkind' = [rkind EXCEPT ![r] = "stream"]
    /\ rthread' = [rthread EXCEPT ![r] = h]
    /\ UNCHANGED <<nonInvokeVars, rsteps, loop_owner, thread_msgs>>

\* whether request r may take a step now: the blocking handler runs alone,
\* a stream runs whenever no blocking handler holds the event loop
MayRun(r) ==
    /\ rpc[r] = "running"
    /\ IF rkind[r] = "invoke" THEN loop_owner = r ELSE loop_owner = 0

\* one step of the agent loop: a message is checkpointed under thread_id
LoopStep(r) ==
    /\ MayRun(r)
    /\ rsteps[r] < MaxLoopSteps
    /\ rsteps' = [rsteps EXCEPT ![r] = @ + 1]
    /\ thread_msgs' = [thread_msgs EXCEPT ![rthread[r]] = @ + 1]
    /\ UNCHANGED <<nonInvokeVars, rpc, rkind, rthread, loop_owner>>

\* invoke_agent returns and the handler builds the InvokeResponse
InvokeEnd(r) ==
    /\ MayRun(r)
    /\ rkind[r] = "invoke"
    /\ rpc' = [rpc EXCEPT ![r] = "done"]
    /\ loop_owner' = 0
    /\ UNCHANGED <<nonInvokeVars, rkind, rthread, rsteps, thread_msgs>>

\* stream_agent yields "done" (or "error") and the generator ends
StreamEnd(r) ==
    /\ MayRun(r)
    /\ rkind[r] = "stream"
    /\ rpc' = [rpc EXCEPT ![r] = "done"]
    /\ UNCHANGED <<nonInvokeVars, rkind, rthread, rsteps, loop_owner, thread_msgs>>

InvInit == DockerInit(0, 0) /\ InvokeInit(MaxRequests, MaxThreads) /\ McpInit(0, 0) /\ ShutdownInit /\ TokenInit(0) /\ NoBus /\ RunInit(0, 0) /\ ResumeInit(0) /\ LocalInit({}) /\ ThreadInit({}) /\ AclInit({NoTool}, {{}}) /\ AuthInit(0) /\ ModelStreamInit({"none"}) /\ ModelCallInit({"none"}) /\ ParseInit({"none"}) /\ ExecInit({0}) /\ LoadInit(FALSE) /\ LaunchInit({}) /\ GateInit({NoGatewayAnswer}) /\ SseInit(FALSE)

InvNext ==
    \/ \E r \in Requests, h \in Threads : InvokeBegin(r, h)
    \/ \E r \in Requests, h \in Threads : StreamBegin(r, h)
    \/ \E r \in Requests : LoopStep(r)
    \/ \E r \in Requests : InvokeEnd(r)
    \/ \E r \in Requests : StreamEnd(r)

SpecInvoke == InvInit /\ [][InvNext]_vars

\* ------------------------------------------------------------------------
\* Properties of invocations
\* ------------------------------------------------------------------------

\* two different requests are running on the same thread_id
Overlap(r, q) ==
    /\ r # q
    /\ rpc[r] = "running"
    /\ rpc[q] = "running"
    /\ rthread[r] = rthread[q]

\* C7: invocations on the same (instance, thread) are serialized: while one
\* invoke or stream is running on a thread_id, no second one runs on it
C7_OneInvocationPerThread ==
    \A r \in Requests, q \in Requests : ~Overlap(r, q)

\* ------------------------------------------------------------------------
\* The MCP bridge: _call_with_reconnect over the sessions of _MCP_CLIENTS
\* ------------------------------------------------------------------------
\* Every tool call runs in a thread and an event loop of its own
\* (_run_async), so the calls interleave at each access to _MCP_CLIENTS
\* and at each await.

Calls == DOMAIN mpc

Servers == DOMAIN server_up

SessionIds == DOMAIN sess

CallResults == {"none", "ok", "tool_error", "error_string", "escaped"}

\* server_name in _MCP_CLIENTS
Registered(s) == client_of[s] # 0

\* the keys of _MCP_CLIENTS after pop(s)
Popped(s) == SelectSeq(clients, LAMBDA x : x # s)

\* the keys of _MCP_CLIENTS after _MCP_CLIENTS[s] = ...: a new key goes last
Stored(s) == IF Registered(s) THEN clients ELSE Append(clients, s)

\* the Client object the next Client(server_url) call constructs
NewSession == CHOOSE i \in SessionIds :
                  sess[i] = "unused" /\ \A j \in SessionIds : j < i => sess[j] # "unused"

\* call_tool on session i of server s gets an answer
Healthy(i, s) == sess[i] = "open" /\ server_up[s]

\* the call returns value res to its caller (or lets an exception out)
Finish(k, res) ==
    /\ mpc' = [mpc EXCEPT ![k] = "done"]
    /\ mres' = [mres EXCEPT ![k] = res]

\* the wrapper is called: _run_async(_call_with_reconnect(...)), attempt 0
ToolCall(k, s) ==
    /\ mpc[k] = "idle"
    /\ mpc' = [mpc EXCEPT ![k] = "get"]
    /\ msrv' = [msrv EXCEPT ![k] = s]
    /\ UNCHANGED <<nonMcpVars, clients, client_of, sess, server_up, msess,
                   attempt, nreconn, ncalls, mres, first_dropped, disturbed>>

\* _get_client, then call_tool is issued on the session it returned
GetClient(k) ==
    /\ mpc[k] = "get"
    /\ IF Registered(msrv[k])
       THEN /\ msess' = [msess EXCEPT ![k] = client_of[msrv[k]]]
            /\ ncalls' = [ncalls EXCEPT ![k] = @ + 1]
            /\ mpc' = [mpc EXCEPT ![k] = "calling"]
       ELSE /\ mpc' = [mpc EXCEPT ![k] = "caught"]
            /\ UNCHANGED <<msess, ncalls>>
    /\ UNCHANGED <<nonMcpVars, clients, client_of, sess, server_up, msrv,
                   attempt, nreconn, mres, first_dropped, disturbed>>

\* await client.call_tool(...) ends: a result (data or is_error) is
\* returned as a string, or the call raises
CallToolDone(k) ==
    /\ mpc[k] = "calling"
    /\ IF Healthy(msess[k], msrv[k])
       THEN /\ \E res \in {"ok", "tool_error"} : Finish(k, res)
            /\ UNCHANGED first_dropped
       ELSE /\ mpc' = [mpc EXCEPT ![k] = "caught"]
            /\ first_dropped' = [first_dropped EXCEPT ![k] =
                   IF attempt[k] = 0
                   THEN sess[msess[k]] = "dropped" /\ server_up[msrv[k]]
                   ELSE @]
            /\ UNCHANGED mres
    /\ UNCHANGED <<nonMcpVars, clients, client_of, sess, server_up, msrv,
                   msess, attempt, nreconn, ncalls, disturbed>>

\* except Exception: reconnect on the first attempt of a registered
\* server, otherwise return "Error: ..."
AfterException(a, registered) ==
    IF a = 0 /\ registered THEN "read_url" ELSE "error_string"

Caught(k) ==
    /\ mpc[k] = "caught"
    /\ IF AfterException(attempt[k], Registered(msrv[k])) = "read_url"
       THEN mpc' = [mpc EXCEPT ![k] = "read_url"] /\ UNCHANGED mres
       ELSE Finish(k, "error_string")
    /\ UNCHANGED <<nonMcpVars, clients, client_of, sess, server_up, msrv,
                   msess, attempt, nreconn, ncalls, first_dropped, disturbed>>

\* _, server_url = _MCP_CLIENTS[server_name], inside the except block and
\* outside the inner try: a KeyError here leaves _call_with_reconnect
ReadUrl(k) ==
    /\ mpc[k] = "read_url"
    /\ IF Registered(msrv[k])
       THEN /\ mpc' = [mpc EXCEPT ![k] = "close_check"]
            /\ nreconn' = [nreconn EXCEPT ![k] = @ + 1]
            /\ UNCHANGED mres
       ELSE /\ Finish(k, "escaped")
            /\ UNCHANGED nreconn
    /\ UNCHANGED <<nonMcpVars, clients, client_of, sess, server_up, msrv,
                   msess, attempt, ncalls, first_dropped, disturbed>>

\* _close_client: if server_name in _MCP_CLIENTS
CloseCheck(k) ==
    /\ mpc[k] = "close_check"
    /\ mpc' = [mpc EXCEPT ![k] =
                  IF Registered(msrv[k]) THEN "close_pop" ELSE "connecting"]
    /\ UNCHANGED <<nonMcpVars, clients, client_of, sess, server_up, msrv,
                   msess, attempt, nreconn, ncalls, mres, first_dropped,
                   disturbed>>

\* _close_client: _MCP_CLIENTS.pop(server_name), then __aexit__ starts; a
\* KeyError of pop is caught as a failed reconnect
ClosePop(k) ==
    /\ mpc[k] = "close_pop"
    /\ IF Registered(msrv[k])
       THEN /\ msess' = [msess EXCEPT ![k] = client_of[msrv[k]]]
            /\ sess' = [sess EXCEPT ![client_of[msrv[k]]] = "closing"]
            /\ client_of' = [client_of EXCEPT ![msrv[k]] = 0]
            /\ clients' = Popped(msrv[k])
            /\ mpc' = [mpc EXCEPT ![k] = "closing"]
            /\ UNCHANGED mres
       ELSE /\ Finish(k, "error_string")
            /\ UNCHANGED <<msess, sess, client_of, clients>>
    /\ UNCHANGED <<nonMcpVars, server_up, msrv, attempt, nreconn, ncalls,
                   first_dropped, disturbed>>

\* await client.__aexit__(...) ends (its exceptions are swallowed); the
\* new Client is constructed and __aenter__ starts
CloseDone(k) ==
    /\ mpc[k] = "closing"
    /\ sess' = [sess EXCEPT ![msess[k]] = "closed"]
    /\ mpc' = [mpc EXCEPT ![k] = "connecting"]
    /\ UNCHANGED <<nonMcpVars, clients, client_of, server_up, msrv, msess,
                   attempt, nreconn, ncalls, mres, first_dropped, disturbed>>

\* for attempt in range(2): the position after iteration a
NextAttempt(a) == IF a + 1 < 2 THEN "get" ELSE "error_string"

\* await client.__aenter__() ends: the session is stored and the loop goes
\* on to the next attempt, or the reconnect failed
ConnectDone(k) ==
    /\ mpc[k] = "connecting"
    /\ IF server_up[msrv[k]]
       THEN /\ sess' = [sess EXCEPT ![NewSession] = "open"]
            /\ client_of' = [client_of EXCEPT ![msrv[k]] = NewSession]
            /\ clients' = Stored(msrv[k])
            /\ msess' = [msess EXCEPT ![k] = NewSession]
            /\ attempt' = [attempt EXCEPT ![k] = @ + 1]
            /\ IF NextAttempt(attempt[k]) = "get"
               THEN mpc' = [mpc EXCEPT ![k] = "get"] /\ UNCHANGED mres
               ELSE Finish(k, "error_string")
       ELSE /\ Finish(k, "error_string")
            /\ UNCHANGED <<sess, client_of, clients, msess, attempt>>
    /\ UNCHANGED <<nonMcpVars, server_up, msrv, nreconn, ncalls,
                   first_dropped, disturbed>>

\* the calls that are in their second attempt on server s
Retrying(s) == {k \in Calls : msrv[k] = s /\ attempt[k] = 1 /\ mpc[k] # "done"}

\* the network drops the connection of an open session
DropSession(i) ==
    /\ sess[i] = "open"
    /\ sess' = [sess EXCEPT ![i] = "dropped"]
    /\ disturbed' = [k \in Calls |->
                        disturbed[k] \/ (attempt[k] = 1 /\ mpc[k] # "done")]
    /\ UNCHANGED <<nonMcpVars, clients, client_of, server_up, mpc, msrv,
                   msess, attempt, nreconn, ncalls, mres, first_dropped>>

\* an MCP server stops
ServerDown(s) ==
    /\ server_up[s]
    /\ server_up' = [server_up EXCEPT ![s] = FALSE]
    /\ disturbed' = [k \in Calls |-> disturbed[k] \/ k \in Retrying(s)]
    /\ UNCHANGED <<nonMcpVars, clients, client_of, sess, mpc, msrv, msess,
                   attempt, nreconn, ncalls, mres, first_dropped>>

\* an MCP server comes back
ServerUp(s) ==
    /\ ~server_up[s]
    /\ server_up' = [server_up EXCEPT ![s] = TRUE]
    /\ UNCHANGED <<nonMcpVars, clients, client_of, sess, mpc, msrv, msess,
                   attempt, nreconn, ncalls, mres, first_dropped, disturbed>>

McpStartInit == DockerInit(0, 0) /\ InvokeInit(0, 0) /\ McpInit(MaxServers, MaxCalls) /\ ShutdownInit /\ TokenInit(0) /\ NoBus /\ RunInit(0, 0) /\ ResumeInit(0) /\ LocalInit({}) /\ ThreadInit({}) /\ AclInit({NoTool}, {{}}) /\ AuthInit(0) /\ ModelStreamInit({"none"}) /\ ModelCallInit({"none"}) /\ ParseInit({"none"}) /\ ExecInit({0}) /\ LoadInit(FALSE) /\ LaunchInit({}) /\ GateInit({NoGatewayAnswer}) /\ SseInit(FALSE)

McpNext ==
    \/ \E k \in Calls, s \in Servers : ToolCall(k, s)
    \/ \E k \in Calls : GetClient(k)
    \/ \E k \in Calls : CallToolDone(k)
    \/ \E k \in Calls : Caught(k)
    \/ \E k \in Calls : ReadUrl(k)
    \/ \E k \in Calls : CloseCheck(k)
    \/ \E k \in Calls : ClosePop(k)
    \/ \E k \in Calls : CloseDone(k)
    \/ \E k \in Calls : ConnectDone(k)
    \/ \E i \in SessionIds : DropSession(i)
    \/ \E s \in Servers : ServerDown(s)
    \/ \E s \in Servers : ServerUp(s)

SpecMcp == McpStartInit /\ [][McpNext]_vars

\* ------------------------------------------------------------------------
\* Properties of the MCP bridge
\* ------------------------------------------------------------------------

\* call k is over and its first call_tool did not give a result
FailedFirst(k) ==
    /\ mpc[k] = "done"
    /\ ~(ncalls[k] = 1 /\ mres[k] \in {"ok", "tool_error"})

\* whatever happens, the caller of call k gets a string
C8_NoExceptionEscapes == \A k \in Calls : mres[k] # "escaped"

\* a failed call reconnected once and issued call_tool a second time
C8_OneReconnectOneRetry ==
    \A k \in Calls : FailedFirst(k) => nreconn[k] = 1 /\ ncalls[k] = 2

\* C8: a failed tool call reconnects the session exactly once and retries
\* exactly once; a failed retry gives the caller an error string; no
\* exception escapes from the call in any case
C8_ReconnectOnceRetryOnce ==
    /\ C8_OneReconnectOneRetry
    /\ \A k \in Calls :
           (FailedFirst(k) /\ ncalls[k] = 2 /\ mres[k] \notin {"ok", "tool_error"})
               => mres[k] = "error_string"
    /\ C8_NoExceptionEscapes

\* call k is inside _connect_client
Reconnecting(k) == mpc[k] \in {"close_check", "close_pop", "closing", "connecting"}

\* call k has a call_tool request in flight
InFlight(k) == mpc[k] = "calling"

\* a reconnect of a server runs alone: no other call of that server is in
\* flight or reconnecting meanwhile
C9_ReconnectRunsAlone ==
    \A k \in Calls, j \in Calls :
        (k # j /\ msrv[k] = msrv[j] /\ Reconnecting(k))
            => ~(InFlight(j) \/ Reconnecting(j))

\* no call_tool is in flight on a session that is being closed or was
\* replaced
C9_NoCallOnClosedSession ==
    \A k \in Calls : InFlight(k) => sess[msess[k]] \notin {"closing", "closed"}

\* C9: sessions are guarded by a per-session lock: a reconnect never runs
\* concurrently with another call or reconnect on the same session, a
\* second caller waits while the session is busy, and no call is issued
\* on a session that is being closed or replaced
C9_SessionLockHeld ==
    /\ C9_ReconnectRunsAlone
    /\ \A k \in Calls, j \in Calls :
           (k # j /\ InFlight(k) /\ InFlight(j)) => msess[k] # msess[j]
    /\ C9_NoCallOnClosedSession

\* C10: a call whose first attempt failed on a dropped session, and whose
\* reconnect found the server up, succeeds on the retry (the server and
\* the network staying up from the reconnect on)
C10_RetryAfterDropSucceeds ==
    \A k \in Calls :
        (mpc[k] = "done" /\ first_dropped[k] /\ attempt[k] = 1 /\ ~disturbed[k])
            => mres[k] \in {"ok", "tool_error"}

\* no other call is under way
RunsAlone(k) == \A j \in Calls \ {k} : mpc[j] \in {"idle", "done"}

\* the first attempt of call k has raised and the call returns "Error: ..."
\* from the except block without running _connect_client
GivesUpAtOnce(k) == mpc[k] = "caught" /\ attempt[k] = 0 /\ mpc'[k] = "done"

\* a call whose first attempt fails while no other call is under way
\* goes on to a reconnect
LaterCallReconnects ==
    [][\A k \in Calls : RunsAlone(k) => ~GivesUpAtOnce(k)]_vars

\* a session that was entered and whose __aexit__ has not been started
Live(i) == sess[i] \in {"open", "dropped"}

\* every live session is the one _MCP_CLIENTS holds for some server
OneSessionPerServer ==
    \A i \in SessionIds : Live(i) => \E s \in Servers : client_of[s] = i

\* C36: a failed reconnect does not disable a server for good: a later
\* call that finds no session still runs a reconnect, and no server has
\* more than one live session
C36_FailedReconnectNotPermanent == LaterCallReconnects /\ []OneSessionPerServer

\* ------------------------------------------------------------------------
\* Shutdown of the MCP bridge: close_all_mcp_clients
\* ------------------------------------------------------------------------

\* for name in list(_MCP_CLIENTS.keys()): the list is taken once
CloseAllBegin ==
    /\ shutdown_pc = "idle"
    /\ shutdown_pc' = "loop"
    /\ close_snapshot' = clients
    /\ closing_todo' = clients
    /\ UNCHANGED <<nonShutdownVars, close_cur, close_log>>

\* await _close_client(name) for the next name: pop the session and start
\* its __aexit__, or pass over a name that is no longer registered
CloseAllNext ==
    /\ shutdown_pc = "loop"
    /\ closing_todo # <<>>
    /\ LET name == Head(closing_todo) IN
       IF Registered(name)
       THEN /\ close_cur' = client_of[name]
            /\ sess' = [sess EXCEPT ![client_of[name]] = "closing"]
            /\ client_of' = [client_of EXCEPT ![name] = 0]
            /\ clients' = Popped(name)
            /\ shutdown_pc' = "aexit"
            /\ UNCHANGED closing_todo
       ELSE /\ closing_todo' = Tail(closing_todo)
            /\ UNCHANGED <<close_cur, sess, client_of, clients, shutdown_pc>>
    /\ UNCHANGED <<dockerVars, invokeVars, tokenVars, busVars, runVars, resumeVars, localVars, threadVars, aclVars, authVars, mstreamVars, mcallVars, parseVars, execVars, loadVars, launchVars, gateVars, sseVars,
                   server_up, mpc, msrv, msess,
                   attempt, nreconn, ncalls, mres, first_dropped, disturbed,
                   close_snapshot, close_log>>

\* __aexit__ of the popped session ends, its exceptions swallowed
CloseAllExit ==
    /\ shutdown_pc = "aexit"
    /\ sess' = [sess EXCEPT ![close_cur] = "closed"]
    /\ close_log' = Append(close_log, Head(closing_todo))
    /\ closing_todo' = Tail(closing_todo)
    /\ close_cur' = 0
    /\ shutdown_pc' = "loop"
    /\ UNCHANGED <<dockerVars, invokeVars, tokenVars, busVars, runVars, resumeVars, localVars, threadVars, aclVars, authVars, mstreamVars, mcallVars, parseVars, execVars, loadVars, launchVars, gateVars, sseVars,
                   clients, client_of, server_up, mpc,
                   msrv, msess, attempt, nreconn, ncalls, mres, first_dropped,
                   disturbed, close_snapshot>>

\* the loop is over: "All MCP sessions closed"
CloseAllEnd ==
    /\ shutdown_pc = "loop"
    /\ closing_todo = <<>>
    /\ shutdown_pc' = "done"
    /\ UNCHANGED <<nonShutdownVars, close_snapshot, closing_todo, close_cur, close_log>>

ShutInit == DockerInit(0, 0) /\ InvokeInit(0, 0) /\ McpInit(MaxShutdownServers, 0) /\ ShutdownInit /\ TokenInit(0) /\ NoBus /\ RunInit(0, 0) /\ ResumeInit(0) /\ LocalInit({}) /\ ThreadInit({}) /\ AclInit({NoTool}, {{}}) /\ AuthInit(0) /\ ModelStreamInit({"none"}) /\ ModelCallInit({"none"}) /\ ParseInit({"none"}) /\ ExecInit({0}) /\ LoadInit(FALSE) /\ LaunchInit({}) /\ GateInit({NoGatewayAnswer}) /\ SseInit(FALSE)

ShutNext ==
    \/ CloseAllBegin
    \/ CloseAllNext
    \/ CloseAllExit
    \/ CloseAllEnd
    \/ \E i \in SessionIds : DropSession(i)
    \/ \E s \in Servers : ServerDown(s)
    \/ \E s \in Servers : ServerUp(s)

SpecShutdown == ShutInit /\ [][ShutNext]_vars

\* the sequence q back to front
Reverse(q) == [i \in 1..Len(q) |-> q[Len(q) + 1 - i]]

\* C11: when shutdown is over every session is closed, none is left in the
\* session map, and the sessions were closed in the reverse of the order in
\* which they were inserted into the map
C11_ClosedInReverseOrder ==
    shutdown_pc = "done" =>
        /\ \A i \in SessionIds : sess[i] \in {"closed", "unused"}
        /\ clients = <<>>
        /\ close_log = Reverse(close_snapshot)

\* what the code does: every session is closed, first inserted first
C11_ClosedInInsertionOrder ==
    shutdown_pc = "done" =>
        /\ \A i \in SessionIds : sess[i] \in {"closed", "unused"}
        /\ clients = <<>>
        /\ close_log = close_snapshot

\* ------------------------------------------------------------------------
\* The OAuth2 token manager: GatewayTokenManager
\* ------------------------------------------------------------------------
\* get_token runs on the event loop; get_token_sync runs on whatever thread
\* calls _generate, so it interleaves with everything at every statement.

TokenReqs == DOMAIN tkpc

\* _is_token_valid
IsTokenValid ==
    access_token # 0 /\ now < expires_at - RefreshBufferSeconds

\* the outcome of a check made now
Checked == IF IsTokenValid THEN "valid" ELSE "invalid"

\* return self._access_token: request q is handed the cached token
HandOut(q) ==
    /\ got' = [got EXCEPT ![q] = access_token]
    /\ got_margin' = [got_margin EXCEPT ![q] =
           access_token # 0 /\ now < texp[access_token] - RefreshBufferSeconds]
    /\ tkpc' = [tkpc EXCEPT ![q] = "done"]

\* under the lock: the second check, then either return or _refresh_token
\* up to its await of the POST
CheckedUnderLock(q) ==
    /\ tk_checked' = [tk_checked EXCEPT ![q] = Checked]
    /\ IF IsTokenValid
       THEN HandOut(q) /\ tk_lock' = 0
       ELSE /\ tkpc' = [tkpc EXCEPT ![q] = "posting"]
            /\ tk_lock' = q
            /\ UNCHANGED <<got, got_margin>>

\* get_token: first check; async with self._lock; double check
GetToken(q) ==
    /\ tkpc[q] = "idle"
    /\ tkkind' = [tkkind EXCEPT ![q] = "async"]
    /\ IF IsTokenValid
       THEN /\ HandOut(q)
            /\ tk_checked' = [tk_checked EXCEPT ![q] = "valid"]
            /\ UNCHANGED <<tk_lock, tk_waiters>>
       ELSE IF tk_lock # 0
            THEN /\ tkpc' = [tkpc EXCEPT ![q] = "lockwait"]
                 /\ tk_waiters' = Append(tk_waiters, q)
                 /\ tk_checked' = [tk_checked EXCEPT ![q] = "invalid"]
                 /\ UNCHANGED <<tk_lock, got, got_margin>>
            ELSE CheckedUnderLock(q) /\ UNCHANGED tk_waiters
    /\ UNCHANGED <<nonTokenVars, now, access_token, expires_at, tk_ein, texp>>

\* the first waiter gets the released lock and checks again
GetTokenLocked(q) ==
    /\ tkpc[q] = "lockwait"
    /\ tk_lock = 0
    /\ Head(tk_waiters) = q
    /\ tk_waiters' = Tail(tk_waiters)
    /\ CheckedUnderLock(q)
    /\ UNCHANGED <<nonTokenVars, now, access_token, expires_at, tkkind, tk_ein, texp>>

\* get_token_sync: one check, no lock, then _refresh_token_sync up to its POST
GetTokenSync(q) ==
    /\ tkpc[q] = "idle"
    /\ tkkind' = [tkkind EXCEPT ![q] = "sync"]
    /\ tk_checked' = [tk_checked EXCEPT ![q] = Checked]
    /\ IF IsTokenValid
       THEN HandOut(q)
       ELSE tkpc' = [tkpc EXCEPT ![q] = "posting"] /\ UNCHANGED <<got, got_margin>>
    /\ UNCHANGED <<nonTokenVars, now, access_token, expires_at, tk_lock,
                   tk_waiters, tk_ein, texp>>

\* the lock after request q has left get_token
Released(q) == IF tk_lock = q THEN 0 ELSE tk_lock

\* the POST is answered: self._access_token = body["access_token"]
RefreshAnswered(q, ein) ==
    /\ tkpc[q] = "posting"
    /\ access_token' = q
    /\ tk_ein' = [tk_ein EXCEPT ![q] = ein]
    /\ texp' = [texp EXCEPT ![q] = now + ein]
    /\ tkpc' = [tkpc EXCEPT ![q] = "store_expiry"]
    /\ UNCHANGED <<nonTokenVars, tk_checked, now, expires_at, tk_lock, tk_waiters, tkkind,
                   got, got_margin>>

\* the POST fails: raise_for_status raises through get_token
RefreshFailed(q) ==
    /\ tkpc[q] = "posting"
    /\ tkpc' = [tkpc EXCEPT ![q] = "raised"]
    /\ tk_lock' = Released(q)
    /\ UNCHANGED <<nonTokenVars, tk_checked, now, access_token, expires_at, tk_waiters,
                   tkkind, tk_ein, texp, got, got_margin>>

\* self._expires_at = time.time() + expires_in; return self._access_token
RefreshStored(q) ==
    /\ tkpc[q] = "store_expiry"
    /\ expires_at' = now + tk_ein[q]
    /\ HandOut(q)
    /\ tk_lock' = Released(q)
    /\ UNCHANGED <<nonTokenVars, tk_checked, now, access_token, tk_waiters, tkkind, tk_ein, texp>>

\* time passes, though not between the two assignments that store a response
Tick ==
    /\ now < MaxTime
    /\ \A q \in TokenReqs : tkpc[q] # "store_expiry"
    /\ now' = now + TickSeconds
    /\ UNCHANGED <<nonTokenVars, tk_checked, access_token, expires_at, tk_lock, tk_waiters,
                   tkpc, tkkind, tk_ein, texp, got, got_margin>>

TokInit == DockerInit(0, 0) /\ InvokeInit(0, 0) /\ McpInit(0, 0) /\ ShutdownInit /\ TokenInit(MaxTokenReqs) /\ NoBus /\ RunInit(0, 0) /\ ResumeInit(0) /\ LocalInit({}) /\ ThreadInit({}) /\ AclInit({NoTool}, {{}}) /\ AuthInit(0) /\ ModelStreamInit({"none"}) /\ ModelCallInit({"none"}) /\ ParseInit({"none"}) /\ ExecInit({0}) /\ LoadInit(FALSE) /\ LaunchInit({}) /\ GateInit({NoGatewayAnswer}) /\ SseInit(FALSE)

TokNext ==
    \/ \E q \in TokenReqs : GetToken(q)
    \/ \E q \in TokenReqs : GetTokenLocked(q)
    \/ \E q \in TokenReqs : GetTokenSync(q)
    \/ \E q \in TokenReqs, ein \in ExpiresInValues : RefreshAnswered(q, ein)
    \/ \E q \in TokenReqs : RefreshFailed(q)
    \/ \E q \in TokenReqs : RefreshStored(q)
    \/ Tick

SpecToken == TokInit /\ [][TokNext]_vars

\* refresh requests that are at the OAuth2 endpoint now
Posting == {q \in TokenReqs : tkpc[q] = "posting"}

\* C12: requests that need a token concurrently after expiry cause one
\* refresh request, on the synchronous path as on the asynchronous one: no
\* two refresh requests are ever at the endpoint at the same time
C12_OneRefreshAtATime == Cardinality(Posting) <= 1

\* what the code gives: the requests of get_token refresh one at a time
C12_OneAsyncRefreshAtATime ==
    Cardinality({q \in Posting : tkkind[q] = "async"}) <= 1

\* request q sent a refresh request to the endpoint
Refreshed(q) == tkpc[q] \in {"posting", "store_expiry", "raised"} \/ texp[q] # 0

\* C13: a call that finds now < expires_at - 60 gets the cached token
\* without contacting the endpoint, a call that finds now >= expires_at - 60
\* refreshes, and so no token within 60 s of its expiry is ever handed out
C13_NeverHandsOutExpiring ==
    \A q \in TokenReqs :
        /\ tk_checked[q] = "valid" => (tkpc[q] = "done" /\ ~Refreshed(q))
        /\ (tk_checked[q] = "invalid" /\ tkpc[q] # "lockwait") => Refreshed(q)
        /\ tkpc[q] = "done" => got_margin[q]

\* what the code gives: the first two parts of C13
C13_CachedOrRefreshed ==
    \A q \in TokenReqs :
        /\ tk_checked[q] = "valid" => (tkpc[q] = "done" /\ ~Refreshed(q))
        /\ (tk_checked[q] = "invalid" /\ tkpc[q] # "lockwait") => Refreshed(q)

\* the third part of C13 for the cached path alone: a token a request is
\* handed without refreshing has more than 60 s left (violated when two
\* refreshes overlap and the token of one is stored with the expiry of the
\* other)
C13_CachedTokenHasMargin ==
    \A q \in TokenReqs :
        (tkpc[q] = "done" /\ ~Refreshed(q)) => got_margin[q]

\* ------------------------------------------------------------------------
\* The event bus (events.py) and GET /events (agent_events)
\* ------------------------------------------------------------------------
\* Strings are sequences of characters; only ":" matters, so every other
\* run of characters is one element.

Clients == DOMAIN cl_pc

Colon == ":"

\* usernames the gateway may report (auth.get_current_user takes any string)
UserList == << <<"alice">>, <<"bob">>, <<"x", Colon, "bob">> >>

\* the username connection c is authenticated as
ClientUser(c) == UserList[((c - 1) % Len(UserList)) + 1]

\* the broadcasts of the repository: config_changed to all,
\* container_status to the owner of a backend
UnscopedKinds == { [event |-> <<"config_changed">>, username |-> <<>>] }

ScopedKinds == { [event |-> <<"container_status">>, username |-> UserList[i]] :
                     i \in 1..Len(UserList) }

\* payload = f"{event}:{username}" if username else event
BusPayload(event, username) ==
    IF username = <<>> THEN event ELSE event \o <<Colon>> \o username

\* ":" in raw
HasColon(raw) == \E i \in 1..Len(raw) : raw[i] = Colon

\* index of the last ":" of raw
LastColon(raw) == CHOOSE i \in 1..Len(raw) :
                      raw[i] = Colon /\ \A j \in (i + 1)..Len(raw) : raw[j] # Colon

\* raw.rsplit(":", 1): <<event_name, event_user>>
Rsplit(raw) == << SubSeq(raw, 1, LastColon(raw) - 1),
                  SubSeq(raw, LastColon(raw) + 1, Len(raw)) >>

\* whether event_gen forwards raw to a client authenticated as username
Forwards(raw, username) ==
    IF HasColon(raw) THEN Rsplit(raw)[2] = username ELSE TRUE

\* a queue that takes one element more than maxsize
QueueIsFullLate(q) == Len(q) > QueueMax

\* q.put_nowait raises QueueFull
QueueIsFull(q) == Len(q) >= QueueMax

\* subscribe(): a new queue joins _subscribers and event_gen starts waiting
Subscribe(c) ==
    /\ cl_pc[c] = "closed"
    /\ cl_pc' = [cl_pc EXCEPT ![c] = "waiting"]
    /\ subscribed' = [subscribed EXCEPT ![c] = TRUE]
    /\ UNCHANGED <<nonBusVars, queue, seen, bcast_left, bcast_kinds, timed, waited, silent>>

\* _broadcast: put_nowait on every subscriber, the full ones are discarded
Broadcast(k) ==
    /\ bcast_left # 0
    /\ bcast_left' = IF bcast_left > 0 THEN bcast_left - 1 ELSE bcast_left
    /\ queue' = [c \in Clients |->
                    IF subscribed[c] /\ ~QueueIsFull(queue[c])
                    THEN Append(queue[c], [raw |-> BusPayload(k.event, k.username),
                                           scope |-> k.username])
                    ELSE queue[c]]
    /\ subscribed' = [c \in Clients |-> subscribed[c] /\ ~QueueIsFull(queue[c])]
    /\ UNCHANGED <<nonBusVars, cl_pc, seen, bcast_kinds, timed, waited, silent>>

\* wait_for(q.get()) returns: the event is forwarded as a frame, or skipped
\* with continue when it carries another user's name
Receive(c) ==
    /\ cl_pc[c] = "waiting"
    /\ queue[c] # <<>>
    /\ queue' = [queue EXCEPT ![c] = Tail(@)]
    /\ waited' = [waited EXCEPT ![c] = 0]
    /\ IF Forwards(Head(queue[c]).raw, ClientUser(c))
       THEN /\ seen' = [seen EXCEPT ![c] = @ \cup {Head(queue[c]).scope}]
            /\ silent' = [silent EXCEPT ![c] = 0]
       ELSE UNCHANGED <<seen, silent>>
    /\ UNCHANGED <<nonBusVars, cl_pc, subscribed, bcast_left, bcast_kinds, timed>>

\* wait_for times out: the keep-alive comment is yielded
KeepAlive(c) ==
    /\ cl_pc[c] = "waiting"
    /\ timed
    /\ queue[c] = <<>>
    /\ waited[c] >= KeepAliveSeconds
    /\ waited' = [waited EXCEPT ![c] = 0]
    /\ silent' = [silent EXCEPT ![c] = 0]
    /\ UNCHANGED <<nonBusVars, cl_pc, subscribed, queue, seen, bcast_left, bcast_kinds, timed>>

\* the client stops reading: event_gen stays suspended at its yield
Stall(c) ==
    /\ cl_pc[c] = "waiting"
    /\ waited[c] = 0 /\ silent[c] = 0
    /\ cl_pc' = [cl_pc EXCEPT ![c] = "stalled"]
    /\ UNCHANGED <<nonBusVars, subscribed, queue, seen, bcast_left, bcast_kinds, timed, waited, silent>>

\* the client reads again
Unstall(c) ==
    /\ cl_pc[c] = "stalled"
    /\ cl_pc' = [cl_pc EXCEPT ![c] = "waiting"]
    /\ UNCHANGED <<nonBusVars, subscribed, queue, seen, bcast_left, bcast_kinds, timed, waited, silent>>

\* a subscriber set from which nothing is removed
DiscardNothing(subs, c) == subs

\* unsubscribe: _subscribers.discard(q)
Discard(subs, c) == [subs EXCEPT ![c] = FALSE]

\* the client closes the connection, or the request is cancelled, while
\* event_gen is suspended at wait_for or at a yield
ClientLeaves(c) ==
    /\ cl_pc[c] \in {"waiting", "stalled"}
    /\ cl_pc' = [cl_pc EXCEPT ![c] = "left"]
    /\ UNCHANGED <<nonBusVars, subscribed, queue, seen, bcast_left, bcast_kinds, timed, waited, silent>>

\* request.is_disconnected() or a cancellation: finally unsubscribe(q)
Disconnect(c) ==
    /\ cl_pc[c] \in {"waiting", "stalled", "left"}
    /\ cl_pc' = [cl_pc EXCEPT ![c] = "gone"]
    /\ subscribed' = Discard(subscribed, c)
    /\ queue' = [queue EXCEPT ![c] = <<>>]
    /\ waited' = [waited EXCEPT ![c] = 0]
    /\ silent' = [silent EXCEPT ![c] = 0]
    /\ UNCHANGED <<nonBusVars, seen, bcast_left, bcast_kinds, timed>>

\* BusTick seconds pass; a waiting connection with an event in its queue or
\* with its timeout due runs first
BusTickStep ==
    /\ timed
    /\ \A c \in Clients : cl_pc[c] = "waiting" =>
           (queue[c] = <<>> /\ waited[c] < KeepAliveSeconds /\ silent[c] < MaxSilence)
    /\ waited' = [c \in Clients |-> IF cl_pc[c] = "waiting" THEN waited[c] + BusTick ELSE waited[c]]
    /\ silent' = [c \in Clients |-> IF cl_pc[c] = "waiting" THEN silent[c] + BusTick ELSE silent[c]]
    /\ UNCHANGED <<nonBusVars, cl_pc, subscribed, queue, seen, bcast_left, bcast_kinds, timed>>

BusNext ==
    \/ \E c \in Clients : Subscribe(c)
    \/ \E k \in bcast_kinds : Broadcast(k)
    \/ \E c \in Clients : Receive(c)
    \/ \E c \in Clients : Stall(c)
    \/ \E c \in Clients : Unstall(c)
    \/ \E c \in Clients : Disconnect(c)

\* SpecBus: slow clients and any number of broadcasts, no clock
BusOnlyInit == DockerInit(0, 0) /\ InvokeInit(0, 0) /\ McpInit(0, 0) /\ ShutdownInit /\ TokenInit(0) /\ BusInit(MaxBusClients, UnscopedKinds, -1, FALSE) /\ RunInit(0, 0) /\ ResumeInit(0) /\ LocalInit({}) /\ ThreadInit({}) /\ AclInit({NoTool}, {{}}) /\ AuthInit(0) /\ ModelStreamInit({"none"}) /\ ModelCallInit({"none"}) /\ ParseInit({"none"}) /\ ExecInit({0}) /\ LoadInit(FALSE) /\ LaunchInit({}) /\ GateInit({NoGatewayAnswer}) /\ SseInit(FALSE)

SpecBus == BusOnlyInit /\ [][BusNext]_vars

\* SpecBusUsers: one connection per username, scoped broadcasts, the clock
BusUsersInit == DockerInit(0, 0) /\ InvokeInit(0, 0) /\ McpInit(0, 0) /\ ShutdownInit /\ TokenInit(0) /\ BusInit(Len(UserList), UnscopedKinds \cup ScopedKinds, MaxBroadcasts, TRUE) /\ RunInit(0, 0) /\ ResumeInit(0) /\ LocalInit({}) /\ ThreadInit({}) /\ AclInit({NoTool}, {{}}) /\ AuthInit(0) /\ ModelStreamInit({"none"}) /\ ModelCallInit({"none"}) /\ ParseInit({"none"}) /\ ExecInit({0}) /\ LoadInit(FALSE) /\ LaunchInit({}) /\ GateInit({NoGatewayAnswer}) /\ SseInit(FALSE)

BusUsersNext ==
    \/ \E c \in Clients : Subscribe(c)
    \/ \E k \in bcast_kinds : Broadcast(k)
    \/ \E c \in Clients : Receive(c)
    \/ \E c \in Clients : Disconnect(c)
    \/ \E c \in Clients : KeepAlive(c)
    \/ BusTickStep

SpecBusUsers == BusUsersInit /\ [][BusUsersNext]_vars

\* SpecBusLeave: clients that go away while their connection is open
BusLeaveInit == DockerInit(0, 0) /\ InvokeInit(0, 0) /\ McpInit(0, 0) /\ ShutdownInit /\ TokenInit(0) /\ BusInit(MaxBusClients, UnscopedKinds, MaxBroadcasts, FALSE) /\ RunInit(0, 0) /\ ResumeInit(0) /\ LocalInit({}) /\ ThreadInit({}) /\ AclInit({NoTool}, {{}}) /\ AuthInit(0) /\ ModelStreamInit({"none"}) /\ ModelCallInit({"none"}) /\ ParseInit({"none"}) /\ ExecInit({0}) /\ LoadInit(FALSE) /\ LaunchInit({}) /\ GateInit({NoGatewayAnswer}) /\ SseInit(FALSE)

\* event_gen of a connection whose client has left is resumed: by the
\* 30 s timeout of wait_for at the latest, or by the cancellation
NoticesLeave(c) == cl_pc[c] = "left" /\ Disconnect(c)

BusLeaveNext ==
    \/ \E c \in Clients : Subscribe(c)
    \/ \E k \in bcast_kinds : Broadcast(k)
    \/ \E c \in Clients : Receive(c)
    \/ \E c \in Clients : Stall(c)
    \/ \E c \in Clients : Unstall(c)
    \/ \E c \in Clients : ClientLeaves(c)
    \/ \E c \in Clients : Disconnect(c)

SpecBusLeave ==
    /\ BusLeaveInit
    /\ [][BusLeaveNext]_vars
    /\ \A c \in 1..MaxBusClients : WF_vars(NoticesLeave(c))

\* ------------------------------------------------------------------------
\* Properties of the event bus
\* ------------------------------------------------------------------------

\* the step is a broadcast that reached at least one subscriber
IsBroadcastStep ==
    \E c \in Clients :
        \/ Len(queue'[c]) > Len(queue[c])
        \/ subscribed[c] /\ ~subscribed'[c] /\ cl_pc'[c] = cl_pc[c]

\* C14: a subscriber queue never holds more than 32 events; a broadcast
\* takes one step, in which every subscriber whose queue is full leaves the
\* subscriber set with its queue untouched and every other subscriber stays
\* and gets the event
C14_OverflowDropsSubscriber ==
    /\ [](\A c \in Clients : Len(queue[c]) <= QueueMax)
    /\ [][IsBroadcastStep =>
            \A c \in Clients :
                subscribed[c] =>
                    IF Len(queue[c]) = QueueMax
                    THEN ~subscribed'[c] /\ queue'[c] = queue[c]
                    ELSE subscribed'[c] /\ Len(queue'[c]) = Len(queue[c]) + 1]_vars

\* a connection was dropped with its queue full while another got the event
C14_Witness ==
    \E c \in Clients, d \in Clients :
        /\ c # d
        /\ cl_pc[c] \in {"waiting", "stalled"}
        /\ ~subscribed[c]
        /\ Len(queue[c]) = QueueMax
        /\ subscribed[d]
        /\ queue[d] # <<>>

\* C15: a connection forwards an event that was broadcast with a username
\* only if that username is exactly the one the connection is
\* authenticated as
C15_ScopedEventsStayWithUser ==
    \A c \in Clients : \A u \in seen[c] : u = <<>> \/ u = ClientUser(c)

\* C16: an open connection that is waiting for events never stays more than
\* 30 seconds without yielding a frame
C16_FrameEveryThirtySeconds ==
    \A c \in Clients : cl_pc[c] = "waiting" => silent[c] <= KeepAliveSeconds

\* the step is event_gen of connection c taking an event from its queue
TakesEvent(c) ==
    /\ cl_pc[c] = "waiting" /\ cl_pc'[c] = "waiting"
    /\ queue[c] # <<>>
    /\ queue'[c] = Tail(queue[c])

\* the event e was broadcast to everyone or to the user of connection c
MeantFor(e, c) == e.scope = <<>> \/ e.scope = ClientUser(c)

\* C37: a subscriber with room in its queue gets each broadcast once, at
\* the end of its queue; event_gen takes the events from the front, and
\* yields every one that is unscoped or scoped to its own user
C37_EveryOwnEventOnceInOrder ==
    /\ [][IsBroadcastStep =>
            \E e \in {[raw |-> BusPayload(k.event, k.username), scope |-> k.username] :
                          k \in bcast_kinds} :
                \A c \in Clients :
                    (subscribed[c] /\ ~QueueIsFull(queue[c]))
                        => queue'[c] = Append(queue[c], e)]_vars
    /\ [][\A c \in Clients :
            (TakesEvent(c) /\ MeantFor(Head(queue[c]), c))
                => Head(queue[c]).scope \in seen'[c]]_vars

Streams == DOMAIN sa_pc

Invokes == DOMAIN ia_pc

\* event names of astream_events(version="v2"); all begin with "on_"
FrameworkKinds == {"on_chat_model_start", "on_chat_model_end", "on_tool_start"}

TerminalKinds == {"done", "error"}

\* POST /stream: EventSourceResponse starts iterating event_generator
StreamAgentBegin(r) ==
    /\ sa_pc[r] = "idle"
    /\ sa_pc' = [sa_pc EXCEPT ![r] = "resolve"]
    /\ UNCHANGED <<nonRunVars, sa_events, sa_exit, ia_pc, trace, llm_calls, tool_calls>>

\* get_agent / get_or_create_default_agent return the agent
StreamAgentResolved(r) ==
    /\ sa_pc[r] = "resolve"
    /\ sa_pc' = [sa_pc EXCEPT ![r] = "streaming"]
    /\ UNCHANGED <<nonRunVars, sa_events, sa_exit, ia_pc, trace, llm_calls, tool_calls>>

\* get_agent raises KeyError before the try block: the generator raises
\* and event_generator of the route passes the exception on
StreamAgentUnknown(r) ==
    /\ sa_pc[r] = "resolve"
    /\ sa_pc' = [sa_pc EXCEPT ![r] = "closed"]
    /\ sa_exit' = [sa_exit EXCEPT ![r] = "raised"]
    /\ UNCHANGED <<nonRunVars, sa_events, ia_pc, trace, llm_calls, tool_calls>>

\* one event of astream_events is serialized and yielded under its own kind
StreamAgentForward(r, kind) ==
    /\ sa_pc[r] = "streaming"
    /\ Len(sa_events[r]) < MaxStreamEvents
    /\ sa_events' = [sa_events EXCEPT ![r] = Append(@, kind)]
    /\ UNCHANGED <<nonRunVars, sa_pc, sa_exit, ia_pc, trace, llm_calls, tool_calls>>

\* astream_events is exhausted: yield done, then the finally block
StreamAgentDone(r) ==
    /\ sa_pc[r] = "streaming"
    /\ sa_events' = [sa_events EXCEPT ![r] = Append(@, "done")]
    /\ sa_pc' = [sa_pc EXCEPT ![r] = "closed"]
    /\ sa_exit' = [sa_exit EXCEPT ![r] = "returned"]
    /\ UNCHANGED <<nonRunVars, ia_pc, trace, llm_calls, tool_calls>>

\* astream_events or the serialization raises an Exception: yield error
StreamAgentError(r) ==
    /\ sa_pc[r] = "streaming"
    /\ sa_events' = [sa_events EXCEPT ![r] = Append(@, "error")]
    /\ sa_pc' = [sa_pc EXCEPT ![r] = "closed"]
    /\ sa_exit' = [sa_exit EXCEPT ![r] = "returned"]
    /\ UNCHANGED <<nonRunVars, ia_pc, trace, llm_calls, tool_calls>>

\* the client goes away: CancelledError / GeneratorExit is no Exception,
\* only the finally block runs
StreamAgentCancelled(r) ==
    /\ sa_pc[r] = "streaming"
    /\ sa_pc' = [sa_pc EXCEPT ![r] = "closed"]
    /\ sa_exit' = [sa_exit EXCEPT ![r] = "cancelled"]
    /\ UNCHANGED <<nonRunVars, sa_events, ia_pc, trace, llm_calls, tool_calls>>

\* invoke_agent up to agent.invoke: the agent is resolved, the trace is
\* created and gets agent_start and input_prompt
InvokeAgentBegin(i) ==
    /\ ia_pc[i] = "idle"
    /\ ia_pc' = [ia_pc EXCEPT ![i] = "invoking"]
    /\ trace' = [trace EXCEPT ![i] = <<"agent_start", "input_prompt">>]
    /\ UNCHANGED <<nonRunVars, sa_pc, sa_events, sa_exit, llm_calls, tool_calls>>

\* get_agent raises KeyError: no trace exists, the route answers 404
InvokeAgentUnknown(i) ==
    /\ ia_pc[i] = "idle"
    /\ ia_pc' = [ia_pc EXCEPT ![i] = "raised"]
    /\ UNCHANGED <<nonRunVars, sa_pc, sa_events, sa_exit, trace, llm_calls, tool_calls>>

\* inside agent.invoke the model is called; invoke_agent passes no callback
\* and records nothing
AgentLlmCall(i) ==
    /\ ia_pc[i] = "invoking"
    /\ llm_calls[i] < MaxLlmCalls
    /\ llm_calls' = [llm_calls EXCEPT ![i] = @ + 1]
    /\ UNCHANGED <<nonRunVars, sa_pc, sa_events, sa_exit, ia_pc, trace, tool_calls>>

\* inside agent.invoke a tool the model asked for is run; nothing is recorded
AgentToolCall(i) ==
    /\ ia_pc[i] = "invoking"
    /\ llm_calls[i] > tool_calls[i]
    /\ tool_calls' = [tool_calls EXCEPT ![i] = @ + 1]
    /\ UNCHANGED <<nonRunVars, sa_pc, sa_events, sa_exit, ia_pc, trace, llm_calls>>

\* agent.invoke returns after a model answer: agent_end is recorded and the
\* trace is attached to the result
InvokeAgentReturn(i) ==
    /\ ia_pc[i] = "invoking"
    /\ llm_calls[i] > tool_calls[i]
    /\ trace' = [trace EXCEPT ![i] = Append(@, "agent_end")]
    /\ ia_pc' = [ia_pc EXCEPT ![i] = "returned"]
    /\ UNCHANGED <<nonRunVars, sa_pc, sa_events, sa_exit, llm_calls, tool_calls>>

\* agent.invoke raises: the trace is lost, the route answers 500
InvokeAgentRaise(i) ==
    /\ ia_pc[i] = "invoking"
    /\ ia_pc' = [ia_pc EXCEPT ![i] = "raised"]
    /\ UNCHANGED <<nonRunVars, sa_pc, sa_events, sa_exit, trace, llm_calls, tool_calls>>

RunNext ==
    \/ \E r \in Streams : StreamAgentBegin(r)
    \/ \E r \in Streams : StreamAgentResolved(r)
    \/ \E r \in Streams : StreamAgentUnknown(r)
    \/ \E r \in Streams, kind \in FrameworkKinds : StreamAgentForward(r, kind)
    \/ \E r \in Streams : StreamAgentDone(r)
    \/ \E r \in Streams : StreamAgentError(r)
    \/ \E r \in Streams : StreamAgentCancelled(r)
    \/ \E i \in Invokes : InvokeAgentBegin(i)
    \/ \E i \in Invokes : InvokeAgentUnknown(i)
    \/ \E i \in Invokes : AgentLlmCall(i)
    \/ \E i \in Invokes : AgentToolCall(i)
    \/ \E i \in Invokes : InvokeAgentReturn(i)
    \/ \E i \in Invokes : InvokeAgentRaise(i)

RunOnlyInit == DockerInit(0, 0) /\ InvokeInit(0, 0) /\ McpInit(0, 0) /\ ShutdownInit /\ TokenInit(0) /\ NoBus /\ RunInit(MaxStreams, MaxInvokes) /\ ResumeInit(0) /\ LocalInit({}) /\ ThreadInit({}) /\ AclInit({NoTool}, {{}}) /\ AuthInit(0) /\ ModelStreamInit({"none"}) /\ ModelCallInit({"none"}) /\ ParseInit({"none"}) /\ ExecInit({0}) /\ LoadInit(FALSE) /\ LaunchInit({}) /\ GateInit({NoGatewayAnswer}) /\ SseInit(FALSE)

SpecRun == RunOnlyInit /\ [][RunNext]_vars

\* number of elements of q that are in S
RECURSIVE CountIn(_, _)
CountIn(q, S) ==
    IF q = <<>> THEN 0
    ELSE (IF Head(q) \in S THEN 1 ELSE 0) + CountIn(Tail(q), S)

\* p occurs in q as a subsequence, in order
RECURSIVE IsSubsequence(_, _)
IsSubsequence(p, q) ==
    IF p = <<>> THEN TRUE
    ELSE IF q = <<>> THEN FALSE
    ELSE IF Head(p) = Head(q) THEN IsSubsequence(Tail(p), Tail(q))
    ELSE IsSubsequence(p, Tail(q))

\* C17: every stream that has ended carries exactly one terminal event,
\* done or error, and that event is its last
C17_EndsWithOneTerminalEvent ==
    \A r \in Streams :
        sa_pc[r] = "closed" =>
            /\ sa_events[r] # <<>>
            /\ sa_events[r][Len(sa_events[r])] \in TerminalKinds
            /\ CountIn(sa_events[r], TerminalKinds) = 1

\* the part of C17 that holds: a stream has at most one terminal event and
\* nothing follows it
C17_NothingAfterTerminalEvent ==
    \A r \in Streams :
        /\ CountIn(sa_events[r], TerminalKinds) <= 1
        /\ \A k \in 1..Len(sa_events[r]) :
               sa_events[r][k] \in TerminalKinds => k = Len(sa_events[r])

\* C18: the trace returned for an invocation has one llm_start and one
\* llm_end for every LLM call made, and for an invocation without tool calls
\* it contains agent_start, llm_start, llm_end, agent_end in that order
C18_TraceHasLlmPairs ==
    \A i \in Invokes :
        ia_pc[i] = "returned" =>
            /\ CountIn(trace[i], {"llm_start"}) = llm_calls[i]
            /\ CountIn(trace[i], {"llm_end"}) = llm_calls[i]
            /\ tool_calls[i] = 0 =>
                   IsSubsequence(<<"agent_start", "llm_start", "llm_end", "agent_end">>, trace[i])

\* what the code records: agent_start, input_prompt, agent_end
C18_TraceIsStartPromptEnd ==
    \A i \in Invokes :
        ia_pc[i] = "returned" =>
            trace[i] = <<"agent_start", "input_prompt", "agent_end">>

\* ------------------------------------------------------------------------
\* resume_agent: the decision on an interrupted tool call
\* ------------------------------------------------------------------------
\* A value of type dict | None is a record: none tells None from a dict,
\* items is the set of the (key, value) pairs of the dict.

None == [none |-> TRUE, items |-> {}]

Dict(pairs) == [none |-> FALSE, items |-> pairs]

Resumes == DOMAIN rs_pc

\* the decisions the API documents
ValidDecisions == {"approve", "reject", "edit"}

\* ResumeRequest.decision is a str: any string gets through validation
Decisions == ValidDecisions \cup {"deny"}

\* arguments of the tool call the thread was interrupted on
OriginalArgs == Dict({<<"path", "a">>})

\* ResumeRequest.edit_args: dict | None
EditArgsValues == {None, Dict({}), Dict({<<"path", "b">>})}

RejectedMessage == "The user rejected this call."

\* truth value of a dict | None in a condition
Truthy(d) == ~d.none /\ d.items # {}

\* the resume payload resume_agent builds
ResumeInput(decision, edit_args) ==
    IF decision = "reject" THEN None
    ELSE IF decision = "edit" /\ Truthy(edit_args) THEN Dict({<<"args", edit_args>>})
    ELSE None

\* POST /resume: the agent is found and the payload is built
ResumeAgent(r, decision, edit_args) ==
    /\ rs_pc[r] = "idle"
    /\ rs_pc' = [rs_pc EXCEPT ![r] = "invoking"]
    /\ rs_decision' = [rs_decision EXCEPT ![r] = decision]
    /\ rs_edit_args' = [rs_edit_args EXCEPT ![r] = edit_args]
    /\ rs_input' = [rs_input EXCEPT ![r] = ResumeInput(decision, edit_args)]
    /\ UNCHANGED <<nonResumeVars, rs_ran, rs_msgs>>

\* get_agent raises KeyError: the route answers 404, the thread is untouched
ResumeAgentUnknown(r, decision, edit_args) ==
    /\ rs_pc[r] = "idle"
    /\ rs_pc' = [rs_pc EXCEPT ![r] = "raised"]
    /\ rs_decision' = [rs_decision EXCEPT ![r] = decision]
    /\ rs_edit_args' = [rs_edit_args EXCEPT ![r] = edit_args]
    /\ UNCHANGED <<nonResumeVars, rs_input, rs_ran, rs_msgs>>

\* agent.invoke(resume_input, config) goes on from the checkpoint: the
\* pending tool runs, with the arguments of the payload if it has any, and
\* its result is appended to the thread
AgentContinues(r) ==
    /\ rs_pc[r] = "invoking"
    /\ LET args == IF rs_input[r].none THEN OriginalArgs
                   ELSE (CHOOSE kv \in rs_input[r].items : kv[1] = "args")[2]
       IN /\ rs_ran' = [rs_ran EXCEPT ![r] = args]
          /\ rs_msgs' = [rs_msgs EXCEPT ![r] = Append(@, "tool result")]
    /\ rs_pc' = [rs_pc EXCEPT ![r] = "done"]
    /\ UNCHANGED <<nonResumeVars, rs_decision, rs_edit_args, rs_input>>

\* agent.invoke(None, config) with nothing to answer the interrupt: the
\* thread is interrupted again on the same call, which does not run
AgentInterruptsAgain(r) ==
    /\ rs_pc[r] = "invoking"
    /\ rs_input[r].none
    /\ rs_pc' = [rs_pc EXCEPT ![r] = "done"]
    /\ UNCHANGED <<nonResumeVars, rs_decision, rs_edit_args, rs_input, rs_ran, rs_msgs>>

ResumeNext ==
    \/ \E r \in Resumes, d \in Decisions, a \in EditArgsValues : ResumeAgent(r, d, a)
    \/ \E r \in Resumes, d \in Decisions, a \in EditArgsValues : ResumeAgentUnknown(r, d, a)
    \/ \E r \in Resumes : AgentContinues(r)
    \/ \E r \in Resumes : AgentInterruptsAgain(r)

ResumeOnlyInit == DockerInit(0, 0) /\ InvokeInit(0, 0) /\ McpInit(0, 0) /\ ShutdownInit /\ TokenInit(0) /\ NoBus /\ RunInit(0, 0) /\ ResumeInit(MaxResumes) /\ LocalInit({}) /\ ThreadInit({}) /\ AclInit({NoTool}, {{}}) /\ AuthInit(0) /\ ModelStreamInit({"none"}) /\ ModelCallInit({"none"}) /\ ParseInit({"none"}) /\ ExecInit({0}) /\ LoadInit(FALSE) /\ LaunchInit({}) /\ GateInit({NoGatewayAnswer}) /\ SseInit(FALSE)

SpecResume == ResumeOnlyInit /\ [][ResumeNext]_vars

\* C19: after a resume with decision reject the pending tool has not run
\* and a tool message "The user rejected this call." has been appended
C19_RejectSkipsTheCall ==
    \A r \in Resumes :
        rs_pc[r] = "done" /\ rs_decision[r] = "reject" =>
            /\ rs_ran[r].none
            /\ \E k \in 1..Len(rs_msgs[r]) : rs_msgs[r][k] = RejectedMessage

\* what the code does: reject and approve hand the same payload to
\* agent.invoke
C19_RejectSameAsApprove ==
    \A r \in Resumes, q \in Resumes :
        /\ rs_pc[r] \in {"invoking", "done"} /\ rs_decision[r] = "reject"
        /\ rs_pc[q] \in {"invoking", "done"} /\ rs_decision[q] = "approve"
        => rs_input[r] = rs_input[q]

\* C20: after a resume with decision edit and an edit_args object, the
\* pending tool has run with exactly the edit_args
C20_EditRunsWithEditArgs ==
    \A r \in Resumes :
        rs_pc[r] = "done" /\ rs_decision[r] = "edit" /\ ~rs_edit_args[r].none =>
            rs_ran[r] = rs_edit_args[r]

\* the part of C20 that holds: a non-empty edit_args reaches agent.invoke
C20_NonEmptyEditArgsPassedOn ==
    \A r \in Resumes :
        /\ rs_pc[r] \in {"invoking", "done"}
        /\ rs_decision[r] = "edit"
        /\ Truthy(rs_edit_args[r])
        => rs_input[r] = Dict({<<"args", rs_edit_args[r]>>})

\* C21: a resume request whose decision is not approve, reject or edit never
\* reaches agent.invoke: the thread is not resumed and its pending tool call
\* does not run
C21_InvalidDecisionRefused ==
    \A r \in Resumes :
        rs_pc[r] # "idle" /\ rs_decision[r] \notin ValidDecisions =>
            /\ rs_pc[r] \notin {"invoking", "done"}
            /\ rs_ran[r].none

\* what the code does: any other decision is handled as approve
C21_InvalidDecisionIsApprove ==
    \A r \in Resumes :
        rs_pc[r] \in {"invoking", "done"} /\ rs_decision[r] \notin ValidDecisions =>
            rs_input[r] = ResumeInput("approve", rs_edit_args[r])

\* ------------------------------------------------------------------------
\* LocalSandboxBackend: one backend per user on the host file system
\* ------------------------------------------------------------------------
\* A path is the sequence of its components; an absolute path begins with
\* the component "/".

LocalUsers == DOMAIN lb_seen

\* the workdir argument of the constructor
WorkdirRoot == <<"/", "workspace">>

\* self._workdir = str(Path(workdir) / username)
Workdir(u) == WorkdirRoot \o <<u>>

\* the working directory of the server process
ProcessCwd == <<"/", "srv">>

\* paths a caller passes: inside either workdir, elsewhere on the host, relative
LocalPaths == { <<"/", "workspace", "alice", "f">>, <<"/", "workspace", "bob", "f">>,
                <<"/", "tmp", "f">>, <<"f">> }

IsAbsolute(p) == p # <<>> /\ p[1] = "/"

\* the file a path names for a process whose working directory is cwd
ResolvePath(cwd, p) == IF IsAbsolute(p) THEN p ELSE cwd \o p

\* the writer of the file at absolute path f
Writer(f) == IF f \in DOMAIN host_fs THEN host_fs[f] ELSE "nobody"

\* the file system after u writes the file at f
Written(f, u) == [g \in DOMAIN host_fs \cup {f} |-> IF g = f THEN u ELSE host_fs[g]]

\* upload_files: Path(dest_path).write_bytes(content) in the server process
UploadFiles(u, p) ==
    /\ host_fs' = Written(ResolvePath(ProcessCwd, p), u)
    /\ UNCHANGED <<nonLocalVars, lb_seen>>

\* download_files: Path(src_path).read_bytes() in the server process
DownloadFiles(u, p) ==
    /\ Writer(ResolvePath(ProcessCwd, p)) # "nobody"
    /\ lb_seen' = [lb_seen EXCEPT ![u] = @ \cup {Writer(ResolvePath(ProcessCwd, p))}]
    /\ UNCHANGED <<nonLocalVars, host_fs>>

\* execute of a command that writes p: sh -c with cwd = self._workdir
ExecuteWrite(u, p) ==
    /\ host_fs' = Written(ResolvePath(Workdir(u), p), u)
    /\ UNCHANGED <<nonLocalVars, lb_seen>>

\* execute of a command that prints p: sh -c with cwd = self._workdir
ExecuteRead(u, p) ==
    /\ Writer(ResolvePath(Workdir(u), p)) # "nobody"
    /\ lb_seen' = [lb_seen EXCEPT ![u] = @ \cup {Writer(ResolvePath(Workdir(u), p))}]
    /\ UNCHANGED <<nonLocalVars, host_fs>>

LocalNext ==
    \/ \E u \in LocalUsers, p \in LocalPaths : UploadFiles(u, p)
    \/ \E u \in LocalUsers, p \in LocalPaths : DownloadFiles(u, p)
    \/ \E u \in LocalUsers, p \in LocalPaths : ExecuteWrite(u, p)
    \/ \E u \in LocalUsers, p \in LocalPaths : ExecuteRead(u, p)

LocalOnlyInit == DockerInit(0, 0) /\ InvokeInit(0, 0) /\ McpInit(0, 0) /\ ShutdownInit /\ TokenInit(0) /\ NoBus /\ RunInit(0, 0) /\ ResumeInit(0) /\ LocalInit({"alice", "bob"}) /\ ThreadInit({}) /\ AclInit({NoTool}, {{}}) /\ AuthInit(0) /\ ModelStreamInit({"none"}) /\ ModelCallInit({"none"}) /\ ParseInit({"none"}) /\ ExecInit({0}) /\ LoadInit(FALSE) /\ LaunchInit({}) /\ GateInit({NoGatewayAnswer}) /\ SseInit(FALSE)

SpecLocal == LocalOnlyInit /\ [][LocalNext]_vars

\* C22: what a user's backend returns from download_files or shows to
\* execute was never written through another user's backend
C22_SandboxesIsolatedPerUser ==
    \A u \in LocalUsers : lb_seen[u] \subseteq {u}

\* ------------------------------------------------------------------------
\* The shared checkpointer: thread state of invoke_agent and resume_agent
\* ------------------------------------------------------------------------

AgentIds == DOMAIN th_read

\* thread ids a client may pass
ThreadIds == {"t1", "t2"}

\* the state the checkpointer holds for config {"thread_id": t}; the key
\* carries no agent id
Checkpoint(t) ==
    IF t \in DOMAIN checkpoints THEN checkpoints[t]
    ELSE [messages |-> <<>>, pending |-> "none"]

\* the agents whose state is in a checkpoint
WritersOf(cp) ==
    {cp.messages[k] : k \in 1..Len(cp.messages)} \cup ({cp.pending} \ {"none"})

Saved(t, cp) ==
    [u \in DOMAIN checkpoints \cup {t} |-> IF u = t THEN cp ELSE checkpoints[u]]

Owned(t, a) ==
    IF t \in DOMAIN th_owner THEN th_owner
    ELSE [u \in DOMAIN th_owner \cup {t} |-> IF u = t THEN a ELSE th_owner[u]]

\* invoke_agent(agent_id = a, thread_id = t): the graph loads the checkpoint
\* of t, appends its messages and saves; it ends interrupted or not
InvokeThread(a, t, interrupted) ==
    /\ Len(Checkpoint(t).messages) < MaxThreadMessages
    /\ th_read' = [th_read EXCEPT ![a] = @ \cup WritersOf(Checkpoint(t))]
    /\ checkpoints' = Saved(t, [messages |-> Append(Checkpoint(t).messages, a),
                                pending |-> IF interrupted THEN a ELSE "none"])
    /\ th_owner' = Owned(t, a)
    /\ UNCHANGED nonThreadVars

\* resume_agent(agent_id = a, thread_id = t): agent.invoke(None, config)
\* goes on from the checkpoint of t, whoever wrote it
ResumeThread(a, t) ==
    /\ Checkpoint(t).pending # "none"
    /\ th_read' = [th_read EXCEPT ![a] = @ \cup WritersOf(Checkpoint(t))]
    /\ checkpoints' = Saved(t, [messages |-> Checkpoint(t).messages, pending |-> "none"])
    /\ th_owner' = Owned(t, a)
    /\ UNCHANGED nonThreadVars

ThreadNext ==
    \/ \E a \in AgentIds, t \in ThreadIds, i \in BOOLEAN : InvokeThread(a, t, i)
    \/ \E a \in AgentIds, t \in ThreadIds : ResumeThread(a, t)

ThreadOnlyInit == DockerInit(0, 0) /\ InvokeInit(0, 0) /\ McpInit(0, 0) /\ ShutdownInit /\ TokenInit(0) /\ NoBus /\ RunInit(0, 0) /\ ResumeInit(0) /\ LocalInit({}) /\ ThreadInit({"A", "B"}) /\ AclInit({NoTool}, {{}}) /\ AuthInit(0) /\ ModelStreamInit({"none"}) /\ ModelCallInit({"none"}) /\ ParseInit({"none"}) /\ ExecInit({0}) /\ LoadInit(FALSE) /\ LaunchInit({}) /\ GateInit({NoGatewayAnswer}) /\ SseInit(FALSE)

SpecThread == ThreadOnlyInit /\ [][ThreadNext]_vars

\* C23: an agent never loads messages or an interrupt written by another
\* agent, and the state of a thread holds only what the agent that first
\* used the thread id wrote
C23_ThreadStatePrivate ==
    /\ \A a \in AgentIds : th_read[a] \subseteq {a}
    /\ \A t \in DOMAIN checkpoints : WritersOf(checkpoints[t]) \subseteq {th_owner[t]}

\* ------------------------------------------------------------------------
\* _is_tool_allowed: the gateway ACL on registered tool names
\* ------------------------------------------------------------------------
\* A name is a sequence of pieces; the piece "_" is the underscore, every
\* other piece is a run of characters without underscore.

Underscore == "_"

\* names of MCP servers in the configuration and of the tools they offer
McpServerNames == { <<"gw">>, <<"my", Underscore, "server">> }

McpToolNames == { <<"add">>, <<"get">>, <<"server", Underscore, "add">> }

\* names of tools registered by the agent itself
LocalToolNames == { <<"calculate">>, <<"mcp", Underscore, "probe">> }

\* registered_name = f"mcp_{server_name}_{tool.name}"
RegisteredName(server, tool) == <<"mcp", Underscore>> \o server \o <<Underscore>> \o tool

AclTools ==
    { [kind |-> "mcp", server |-> s, tool |-> t, name |-> RegisteredName(s, t)] :
          s \in McpServerNames, t \in McpToolNames }
    \cup { [kind |-> "local", server |-> <<>>, tool |-> t, name |-> t] : t \in LocalToolNames }

\* what the gateway may list: tool names and the wildcard
AclAllowedSets == SUBSET (McpToolNames \cup {<<"*">>})

\* tool_name.startswith("mcp_")
StartsWithMcp(name) == Len(name) >= 2 /\ name[1] = "mcp" /\ name[2] = Underscore

\* positions of the underscores of name, in order
RECURSIVE UnderscoresFrom(_, _)
UnderscoresFrom(name, i) ==
    IF i > Len(name) THEN <<>>
    ELSE IF name[i] = Underscore THEN <<i>> \o UnderscoresFrom(name, i + 1)
    ELSE UnderscoresFrom(name, i + 1)

\* tool_name.split("_", 2): at most two cuts, the rest stays whole
SplitTwice(name) ==
    LET us == UnderscoresFrom(name, 1)
    IN IF Len(us) = 0 THEN <<name>>
       ELSE IF Len(us) = 1
            THEN <<SubSeq(name, 1, us[1] - 1), SubSeq(name, us[1] + 1, Len(name))>>
       ELSE <<SubSeq(name, 1, us[1] - 1),
              SubSeq(name, us[1] + 1, us[2] - 1),
              SubSeq(name, us[2] + 1, Len(name))>>

IsToolAllowed(name, gateway_allowed) ==
    IF <<"*">> \in gateway_allowed THEN TRUE
    ELSE IF StartsWithMcp(name)
         THEN LET parts == SplitTwice(name)
              IN Len(parts) >= 3 /\ parts[3] \in gateway_allowed
    ELSE TRUE

\* a request has its tool checked against the gateway's list
CheckTool ==
    /\ acl_tool.kind # "none"
    /\ acl_result = "none"
    /\ acl_result' = IF IsToolAllowed(acl_tool.name, acl_allowed) THEN "allowed" ELSE "denied"
    /\ UNCHANGED <<nonAclVars, acl_tool, acl_allowed>>

AclNext == CheckTool

AclOnlyInit == DockerInit(0, 0) /\ InvokeInit(0, 0) /\ McpInit(0, 0) /\ ShutdownInit /\ TokenInit(0) /\ NoBus /\ RunInit(0, 0) /\ ResumeInit(0) /\ LocalInit({}) /\ ThreadInit({}) /\ AclInit(AclTools, AclAllowedSets) /\ AuthInit(0) /\ ModelStreamInit({"none"}) /\ ModelCallInit({"none"}) /\ ParseInit({"none"}) /\ ExecInit({0}) /\ LoadInit(FALSE) /\ LaunchInit({}) /\ GateInit({NoGatewayAnswer}) /\ SseInit(FALSE)

SpecAcl == AclOnlyInit /\ [][AclNext]_vars

\* C24: a tool registered as mcp_<server>_<tool> is allowed exactly when
\* <tool> or "*" is in the gateway's set; a tool that was not registered by
\* an MCP server and has no mcp_ prefix is always allowed
C24_AclChecksBareName ==
    acl_result # "none" =>
        /\ acl_tool.kind = "mcp" =>
               (acl_result = "allowed"
                    <=> (acl_tool.tool \in acl_allowed \/ <<"*">> \in acl_allowed))
        /\ acl_tool.kind = "local" /\ ~StartsWithMcp(acl_tool.name) =>
               acl_result = "allowed"

\* the part of C24 that holds: for servers without underscore in their
\* name the check is exact, and unprefixed tools always pass
C24_ExactForPlainServerNames ==
    acl_result # "none" =>
        /\ acl_tool.kind = "mcp" /\ UnderscoresFrom(acl_tool.server, 1) = <<>> =>
               (acl_result = "allowed"
                    <=> (acl_tool.tool \in acl_allowed \/ <<"*">> \in acl_allowed))
        /\ acl_tool.kind = "local" /\ ~StartsWithMcp(acl_tool.name) =>
               acl_result = "allowed"

\* ------------------------------------------------------------------------
\* Authentication in front of the handlers (auth.py, routes/agent.py)
\* ------------------------------------------------------------------------
\* The gateway URL is configured, so authentication is on.

AuthReqs == DOMAIN au_pc

\* handlers that change server state
Routes == {"events", "agent_info", "backend", "terminal"}

\* what becomes of the token: none was sent, /auth/me answers 200, 401 or
\* another status, or the gateway cannot be reached
GatewayAnswers == {"no_token", "status_200", "status_401", "status_500", "unreachable"}

\* get_current_user returns a user instead of raising HTTPException
GetCurrentUserPassesLax(answer) == answer \notin {"no_token", "status_401", "unreachable"}

GetCurrentUserPasses(answer) == answer = "status_200"

\* the manual check of terminal_websocket goes on to websocket.accept()
TerminalAuthPasses(answer) == answer = "status_200"

AuthPasses(req) ==
    IF req.route = "terminal" THEN TerminalAuthPasses(req.answer)
    ELSE GetCurrentUserPasses(req.answer)

\* a request arrives and its token is sent to the gateway
RequestArrives(r, route, answer) ==
    /\ au_pc[r] = "new"
    /\ au_pc' = [au_pc EXCEPT ![r] = "authenticating"]
    /\ au_req' = [au_req EXCEPT ![r] = [route |-> route, answer |-> answer]]
    /\ UNCHANGED <<nonAuthVars, au_server>>

\* get_current_user raises 401 / 502, or the websocket is closed with
\* 4001 / 4002: the handler ends there
AuthRejects(r) ==
    /\ au_pc[r] = "authenticating"
    /\ ~AuthPasses(au_req[r])
    /\ au_pc' = [au_pc EXCEPT ![r] = "rejected"]
    /\ UNCHANGED <<nonAuthVars, au_req, au_server>>

\* GET /events after _resolve_user: q = await subscribe()
AgentEventsSubscribes(r) ==
    /\ au_pc[r] = "authenticating"
    /\ au_req[r].route = "events"
    /\ AuthPasses(au_req[r])
    /\ au_server' = [au_server EXCEPT !.subscribers = @ \cup {r}]
    /\ au_pc' = [au_pc EXCEPT ![r] = "serving"]
    /\ UNCHANGED <<nonAuthVars, au_req>>

\* GET /{agent_id} after _resolve_user: get_or_clone_agent
GetAgentInfoClones(r) ==
    /\ au_pc[r] = "authenticating"
    /\ au_req[r].route = "agent_info"
    /\ AuthPasses(au_req[r])
    /\ au_server' = [au_server EXCEPT !.instances = @ \cup {r}]
    /\ au_pc' = [au_pc EXCEPT ![r] = "serving"]
    /\ UNCHANGED <<nonAuthVars, au_req>>

\* PATCH /{agent_id}/backend after get_current_user: update_agent_backend
\* and create_task(launch_container_async())
PatchBackendLaunches(r) ==
    /\ au_pc[r] = "authenticating"
    /\ au_req[r].route = "backend"
    /\ AuthPasses(au_req[r])
    /\ au_server' = [au_server EXCEPT !.instances = @ \cup {r}, !.launches = @ \cup {r}]
    /\ au_pc' = [au_pc EXCEPT ![r] = "serving"]
    /\ UNCHANGED <<nonAuthVars, au_req>>

\* the terminal websocket after its token check: accept, get_or_clone_agent
TerminalAccepts(r) ==
    /\ au_pc[r] = "authenticating"
    /\ au_req[r].route = "terminal"
    /\ AuthPasses(au_req[r])
    /\ au_server' = [au_server EXCEPT !.instances = @ \cup {r}]
    /\ au_pc' = [au_pc EXCEPT ![r] = "serving"]
    /\ UNCHANGED <<nonAuthVars, au_req>>

AuthNext ==
    \/ \E r \in AuthReqs, route \in Routes, answer \in GatewayAnswers : RequestArrives(r, route, answer)
    \/ \E r \in AuthReqs : AuthRejects(r)
    \/ \E r \in AuthReqs : AgentEventsSubscribes(r)
    \/ \E r \in AuthReqs : GetAgentInfoClones(r)
    \/ \E r \in AuthReqs : PatchBackendLaunches(r)
    \/ \E r \in AuthReqs : TerminalAccepts(r)

AuthOnlyInit == DockerInit(0, 0) /\ InvokeInit(0, 0) /\ McpInit(0, 0) /\ ShutdownInit /\ TokenInit(0) /\ NoBus /\ RunInit(0, 0) /\ ResumeInit(0) /\ LocalInit({}) /\ ThreadInit({}) /\ AclInit({NoTool}, {{}}) /\ AuthInit(MaxAuthReqs) /\ ModelStreamInit({"none"}) /\ ModelCallInit({"none"}) /\ ParseInit({"none"}) /\ ExecInit({0}) /\ LoadInit(FALSE) /\ LaunchInit({}) /\ GateInit({NoGatewayAnswer}) /\ SseInit(FALSE)

SpecAuth == AuthOnlyInit /\ [][AuthNext]_vars

\* the requests that have changed server state
ChangedBy == au_server.subscribers \cup au_server.instances \cup au_server.launches

\* C25: a request whose token the gateway does not accept with 200 never
\* registers a subscriber queue, never creates or modifies an agent instance
\* and never starts a container launch; every step that changes the server
\* state is the step of a request whose token was accepted
C25_FailedAuthChangesNothing ==
    /\ [](\A r \in AuthReqs : au_req[r].answer # "status_200" => r \notin ChangedBy)
    /\ [][au_server' # au_server =>
            \E r \in AuthReqs : /\ au_req[r].answer = "status_200"
                                /\ au_pc[r] = "authenticating"
                                /\ au_pc'[r] = "serving"]_vars

\* one request to /events was rejected while another one was let in
C25_Witness ==
    \E r \in AuthReqs, q \in AuthReqs :
        /\ au_pc[r] = "rejected"
        /\ au_req[r].route = "events"
        /\ au_req[r].answer # "status_200"
        /\ au_pc[q] = "serving"
        /\ q \in au_server.subscribers
        /\ r \notin ChangedBy

\* ------------------------------------------------------------------------
\* Model.stream, OpenAIModel.stream, AnthropicModel.stream
\* ------------------------------------------------------------------------
\* A text is a sequence of characters (<<>> is ""), a tool call is a
\* positive number, NoToolCall is None.

NoToolCall == 0

StreamChunk(delta, tool_call, done) == [delta |-> delta, tool_call |-> tool_call, done |-> done]

DeltaChunk(text) == StreamChunk(<<>> \o text, NoToolCall, FALSE)

ToolCallChunk(tc) == StreamChunk(<<>>, tc, FALSE)

DoneChunk == StreamChunk(<<>>, NoToolCall, TRUE)

ModelResponse(content, calls_made) == [content |-> content, tool_calls |-> calls_made]

\* one chunk for each tool call of a list
ToolCallChunks(calls_made) == [i \in 1..Len(calls_made) |-> ToolCallChunk(calls_made[i])]

\* texts and tool call lists a model answers with
Texts == {<<>>, <<"a">>, <<"b">>, <<"a", "b">>}

ToolCallLists == {<<>>, <<1>>, <<2>>, <<1, 2>>, <<2, 1>>}

\* the tool calls accumulated for a set of indices, by index
PendingToolCalls(pending) ==
    IF pending = {} THEN <<>>
    ELSE IF pending = {0, 1} THEN <<1, 2>>
    ELSE IF pending = {0} THEN <<1>> ELSE <<2>>

\* Model.stream after invoke() has returned resp
WrapResponse(resp) ==
    (IF resp.content # <<>> THEN <<DeltaChunk(resp.content)>> ELSE <<>>)
        \o ToolCallChunks(resp.tool_calls) \o <<DoneChunk>>

\* lines of an OpenAI-compatible event stream, by what the loop does with
\* them: skipped (blank, no "data:" prefix, not JSON, empty content), a
\* content delta, a tool call delta for index 0 or 1, the [DONE] marker, a
\* JSON object whose "choices" list is empty
OpenAILines == {"skipped", "content", "tool_delta_0", "tool_delta_1", "done_marker", "no_choices"}

\* events of an Anthropic event stream
AnthropicLines == {"skipped", "text_delta", "tool_use_start", "input_json_delta",
                   "content_block_stop", "message_stop"}

\* what OpenAIModel.stream yields after its loop
OpenAIEndChunksNoDone(pending) == ToolCallChunks(PendingToolCalls(pending))

OpenAIEndChunks(pending) == ToolCallChunks(PendingToolCalls(pending)) \o <<DoneChunk>>

\* the first next(): the request is sent, the status is 200
ModelStreamOpen ==
    /\ ms_pc = "idle"
    /\ ms_impl \in {"openai", "anthropic"}
    /\ ms_pc' = "reading"
    /\ UNCHANGED <<nonMstreamVars, ms_impl, ms_read, ms_pending, ms_chunks>>

\* the status is not 200 (ModelError), or the request or a later read of
\* the response fails: the generator raises
ModelStreamRaises ==
    /\ ms_pc \in {"idle", "reading"}
    /\ ms_impl \in {"openai", "anthropic"}
    /\ ms_pc' = "raised"
    /\ UNCHANGED <<nonMstreamVars, ms_impl, ms_read, ms_pending, ms_chunks>>

\* OpenAIModel.stream: one pass of the loop over resp.iter_lines, and on
\* [DONE] the rest of the function
OpenAIStreamLine(line) ==
    /\ ms_impl = "openai"
    /\ ms_pc = "reading"
    /\ ms_read < MaxStreamLines
    /\ ms_read' = ms_read + 1
    /\ CASE line = "skipped" ->
              UNCHANGED <<ms_pc, ms_pending, ms_chunks>>
         [] line = "content" ->
              /\ ms_chunks' = Append(ms_chunks, DeltaChunk(<<"a">>))
              /\ UNCHANGED <<ms_pc, ms_pending>>
         [] line = "tool_delta_0" ->
              /\ ms_pending' = ms_pending \cup {0}
              /\ UNCHANGED <<ms_pc, ms_chunks>>
         [] line = "tool_delta_1" ->
              /\ ms_pending' = ms_pending \cup {1}
              /\ UNCHANGED <<ms_pc, ms_chunks>>
         [] line = "done_marker" ->
              /\ ms_chunks' = ms_chunks \o OpenAIEndChunks(ms_pending)
              /\ ms_pc' = "ended"
              /\ UNCHANGED ms_pending
         [] line = "no_choices" ->
              /\ ms_pc' = "raised"
              /\ UNCHANGED <<ms_pending, ms_chunks>>
    /\ UNCHANGED <<nonMstreamVars, ms_impl>>

\* OpenAIModel.stream: the response ends without [DONE]
OpenAIStreamExhausted ==
    /\ ms_impl = "openai"
    /\ ms_pc = "reading"
    /\ ms_chunks' = ms_chunks \o OpenAIEndChunks(ms_pending)
    /\ ms_pc' = "ended"
    /\ UNCHANGED <<nonMstreamVars, ms_impl, ms_read, ms_pending>>

\* AnthropicModel.stream: one pass of the loop, and on message_stop the
\* rest of the function
AnthropicStreamLine(line) ==
    /\ ms_impl = "anthropic"
    /\ ms_pc = "reading"
    /\ ms_read < MaxStreamLines
    /\ ms_read' = ms_read + 1
    /\ CASE line = "skipped" ->
              UNCHANGED <<ms_pc, ms_pending, ms_chunks>>
         [] line = "text_delta" ->
              /\ ms_chunks' = Append(ms_chunks, DeltaChunk(<<"a">>))
              /\ UNCHANGED <<ms_pc, ms_pending>>
         [] line = "tool_use_start" ->
              /\ ms_pending' = {0}
              /\ UNCHANGED <<ms_pc, ms_chunks>>
         [] line = "input_json_delta" ->
              UNCHANGED <<ms_pc, ms_pending, ms_chunks>>
         [] line = "content_block_stop" ->
              /\ ms_chunks' = IF ms_pending # {} THEN Append(ms_chunks, ToolCallChunk(1))
                              ELSE ms_chunks
              /\ ms_pending' = {}
              /\ UNCHANGED ms_pc
         [] line = "message_stop" ->
              /\ ms_chunks' = Append(ms_chunks, DoneChunk)
              /\ ms_pc' = "ended"
              /\ UNCHANGED ms_pending
    /\ UNCHANGED <<nonMstreamVars, ms_impl>>

\* AnthropicModel.stream: the response ends without message_stop
AnthropicStreamExhausted ==
    /\ ms_impl = "anthropic"
    /\ ms_pc = "reading"
    /\ ms_chunks' = Append(ms_chunks, DoneChunk)
    /\ ms_pc' = "ended"
    /\ UNCHANGED <<nonMstreamVars, ms_impl, ms_read, ms_pending>>

\* Model.stream over an invoke() that returns resp
DefaultStreamWraps(resp) ==
    /\ ms_impl = "default"
    /\ ms_pc = "idle"
    /\ ms_chunks' = WrapResponse(resp)
    /\ ms_pc' = "ended"
    /\ UNCHANGED <<nonMstreamVars, ms_impl, ms_read, ms_pending>>

\* Model.stream over an invoke() that raises
DefaultStreamRaises ==
    /\ ms_impl = "default"
    /\ ms_pc = "idle"
    /\ ms_pc' = "raised"
    /\ UNCHANGED <<nonMstreamVars, ms_impl, ms_read, ms_pending, ms_chunks>>

ModelStreamNext ==
    \/ ModelStreamOpen
    \/ ModelStreamRaises
    \/ \E line \in OpenAILines : OpenAIStreamLine(line)
    \/ OpenAIStreamExhausted
    \/ \E line \in AnthropicLines : AnthropicStreamLine(line)
    \/ AnthropicStreamExhausted
    \/ \E content \in Texts, calls_made \in ToolCallLists :
           DefaultStreamWraps(ModelResponse(content, calls_made))
    \/ DefaultStreamRaises

ModelStreamOnlyInit == DockerInit(0, 0) /\ InvokeInit(0, 0) /\ McpInit(0, 0) /\ ShutdownInit /\ TokenInit(0) /\ NoBus /\ RunInit(0, 0) /\ ResumeInit(0) /\ LocalInit({}) /\ ThreadInit({}) /\ AclInit({NoTool}, {{}}) /\ AuthInit(0) /\ ModelStreamInit({"openai", "anthropic", "default"}) /\ ModelCallInit({"none"}) /\ ParseInit({"none"}) /\ ExecInit({0}) /\ LoadInit(FALSE) /\ LaunchInit({}) /\ GateInit({NoGatewayAnswer}) /\ SseInit(FALSE)

SpecModelStream == ModelStreamOnlyInit /\ [][ModelStreamNext]_vars

\* number of done chunks of a chunk sequence
RECURSIVE DoneCount(_)
DoneCount(chunks) ==
    IF chunks = <<>> THEN 0
    ELSE (IF Head(chunks).done THEN 1 ELSE 0) + DoneCount(Tail(chunks))

\* C26: a stream that has ended has exactly one done chunk, its last one;
\* while a stream runs, and in one that raises, no done chunk has been
\* yielded
C26_ExactlyOneDoneChunkLast ==
    /\ ms_pc = "ended" =>
           /\ DoneCount(ms_chunks) = 1
           /\ ms_chunks[Len(ms_chunks)].done
    /\ ms_pc # "ended" => DoneCount(ms_chunks) = 0

\* an OpenAI stream ended with a text delta, a tool call and the done chunk
C26_Witness ==
    /\ ms_impl = "openai"
    /\ ms_pc = "ended"
    /\ Len(ms_chunks) >= 3
    /\ \E k \in 1..Len(ms_chunks) : ms_chunks[k].tool_call # NoToolCall

\* ------------------------------------------------------------------------
\* Model.invoke and Model.stream, the defaults in terms of each other
\* ------------------------------------------------------------------------
\* stream() includes draining the generator it returns: the body of a
\* generator runs when it is iterated.

NoValue == [kind |-> "none", content |-> <<>>, tool_calls |-> <<>>, chunks |-> <<>>]

ErrorValue == [kind |-> "error", content |-> <<>>, tool_calls |-> <<>>, chunks |-> <<>>]

ResponseValue(resp) ==
    [kind |-> "response", content |-> resp.content, tool_calls |-> resp.tool_calls, chunks |-> <<>>]

ChunksValue(chunks) ==
    [kind |-> "chunks", content |-> <<>>, tool_calls |-> <<>>, chunks |-> chunks]

OtherMethod(m) == IF m = "invoke" THEN "stream" ELSE "invoke"

\* the chunks a subclass's own stream() may yield
UserChunks ==
    {StreamChunk(delta, tc, done) : delta \in {<<>>, <<"a">>, <<"b">>}, tc \in {NoToolCall, 1, 2},
                                    done \in BOOLEAN}

\* one pass of the loop of Model.invoke over the chunks of stream(): acc is
\* the response accumulated so far
AccumulateLate(acc, chunk) ==
    ModelResponse(acc.content \o chunk.delta,
                  IF chunk.tool_call # NoToolCall
                  THEN Append(acc.tool_calls, chunk.tool_call)
                  ELSE acc.tool_calls)

Accumulate(acc, chunk) ==
    IF chunk.done THEN ModelResponse(acc.content, acc.tool_calls)
    ELSE ModelResponse(acc.content \o chunk.delta,
                       IF chunk.tool_call # NoToolCall
                       THEN Append(acc.tool_calls, chunk.tool_call)
                       ELSE acc.tool_calls)

\* "if self._guard"
GuardIsSetNever(guard) == FALSE

GuardIsSet(guard) == guard

\* a caller calls the method the subclass does not implement
ModelCall(m) ==
    /\ mc_overrides \in {"invoke", "stream", "neither"}
    /\ mc_pc = "idle"
    /\ mc_calls < MaxModelCalls
    /\ m # mc_overrides
    /\ mc_calls' = mc_calls + 1
    /\ mc_cur' = m
    /\ mc_pc' = "check"
    /\ mc_input' = NoValue
    /\ mc_out' = NoValue
    /\ UNCHANGED <<nonMcallVars, mc_overrides, mc_guard, mc_stack>>

\* the head of Model.invoke and Model.stream: raise when the guard is
\* set, else set it and call the other method
GuardCheck ==
    /\ mc_pc = "check"
    /\ IF GuardIsSet(mc_guard)
       THEN /\ mc_pc' = "raising"
            /\ mc_out' = ErrorValue
            /\ UNCHANGED <<mc_guard, mc_stack, mc_cur>>
       ELSE /\ Len(mc_stack) < MaxDepth
            /\ mc_guard' = TRUE
            /\ mc_stack' = Append(mc_stack, mc_cur)
            /\ IF OtherMethod(mc_cur) = mc_overrides
               THEN mc_pc' = "implemented" /\ UNCHANGED mc_cur
               ELSE mc_pc' = "check" /\ mc_cur' = OtherMethod(mc_cur)
            /\ mc_out' = IF mc_cur = "invoke" THEN ResponseValue(ModelResponse(<<>>, <<>>))
                         ELSE mc_out
    /\ UNCHANGED <<nonMcallVars, mc_overrides, mc_input, mc_calls>>

\* Model.invoke takes the next chunk of the subclass's stream() and leaves
\* the loop on a done chunk
InvokeTakesChunk(chunk) ==
    /\ mc_pc = "implemented"
    /\ mc_overrides = "stream"
    /\ Len(mc_input.chunks) < MaxChunks
    /\ mc_input' = ChunksValue(Append(mc_input.chunks, chunk))
    /\ mc_out' = ResponseValue(Accumulate(mc_out, chunk))
    /\ mc_pc' = IF chunk.done THEN "returning" ELSE mc_pc
    /\ UNCHANGED <<nonMcallVars, mc_overrides, mc_guard, mc_stack, mc_cur, mc_calls>>

\* the subclass's stream() ends, with or without a done chunk
ImplementedStreamEnds ==
    /\ mc_pc = "implemented"
    /\ mc_overrides = "stream"
    /\ mc_pc' = "returning"
    /\ UNCHANGED <<nonMcallVars, mc_overrides, mc_guard, mc_stack, mc_cur, mc_input, mc_out, mc_calls>>

\* the subclass's invoke() returns resp
ImplementedInvoke(resp) ==
    /\ mc_pc = "implemented"
    /\ mc_overrides = "invoke"
    /\ mc_input' = ResponseValue(resp)
    /\ mc_out' = ResponseValue(resp)
    /\ mc_pc' = "returning"
    /\ UNCHANGED <<nonMcallVars, mc_overrides, mc_guard, mc_stack, mc_cur, mc_calls>>

\* the subclass's method raises
ImplementedRaises ==
    /\ mc_pc = "implemented"
    /\ mc_out' = ErrorValue
    /\ mc_pc' = "raising"
    /\ UNCHANGED <<nonMcallVars, mc_overrides, mc_guard, mc_stack, mc_cur, mc_input, mc_calls>>

\* the rest of a default method: "finally" clears the guard; invoke
\* returns what it accumulated, stream yields the wrapped response
DefaultFinishes ==
    /\ mc_pc \in {"returning", "raising"}
    /\ mc_stack # <<>>
    /\ mc_guard' = FALSE
    /\ mc_stack' = SubSeq(mc_stack, 1, Len(mc_stack) - 1)
    /\ mc_out' = IF mc_pc = "raising" THEN ErrorValue
                 ELSE IF mc_stack[Len(mc_stack)] = "invoke" THEN mc_out
                 ELSE ChunksValue(WrapResponse(mc_out))
    /\ UNCHANGED <<nonMcallVars, mc_overrides, mc_pc, mc_cur, mc_input, mc_calls>>

\* the caller has the result, or the error
ModelCallEnds ==
    /\ mc_pc \in {"returning", "raising"}
    /\ mc_stack = <<>>
    /\ mc_pc' = "idle"
    /\ UNCHANGED <<nonMcallVars, mc_overrides, mc_guard, mc_stack, mc_cur, mc_input, mc_out, mc_calls>>

\* the steps of a call under way
ModelCallRuns ==
    \/ GuardCheck
    \/ \E chunk \in UserChunks : InvokeTakesChunk(chunk)
    \/ ImplementedStreamEnds
    \/ \E content \in Texts, calls_made \in ToolCallLists :
           ImplementedInvoke(ModelResponse(content, calls_made))
    \/ ImplementedRaises
    \/ DefaultFinishes
    \/ ModelCallEnds

ModelCallNext ==
    \/ \E m \in {"invoke", "stream"} : ModelCall(m)
    \/ ModelCallRuns

ModelCallOnlyInit == DockerInit(0, 0) /\ InvokeInit(0, 0) /\ McpInit(0, 0) /\ ShutdownInit /\ TokenInit(0) /\ NoBus /\ RunInit(0, 0) /\ ResumeInit(0) /\ LocalInit({}) /\ ThreadInit({}) /\ AclInit({NoTool}, {{}}) /\ AuthInit(0) /\ ModelStreamInit({"none"}) /\ ModelCallInit({"invoke", "stream", "neither"}) /\ ParseInit({"none"}) /\ ExecInit({0}) /\ LoadInit(FALSE) /\ LaunchInit({}) /\ GateInit({NoGatewayAnswer}) /\ SseInit(FALSE)

SpecModelCall == ModelCallOnlyInit /\ [][ModelCallNext]_vars

\* a call that has started keeps running: it is one thread of Python
SpecModelCallFair == SpecModelCall /\ WF_vars(ModelCallRuns)

\* C27: on a subclass that overrides neither method no default is entered
\* below another default that holds the guard, every call ends, it ends
\* with the error, and the guard is clear after every call
C27_GuardStopsDelegation ==
    /\ [](/\ Len(mc_stack) <= 1
          /\ mc_pc = "idle" => ~mc_guard
          /\ (mc_pc = "idle" /\ mc_overrides = "neither" /\ mc_calls > 0) => mc_out.kind = "error")
    /\ (mc_pc # "idle") ~> (mc_pc = "idle")

\* the second call on a subclass that overrides neither has ended with the
\* error and the guard is clear
C27_Witness ==
    /\ mc_overrides = "neither"
    /\ mc_calls = MaxModelCalls
    /\ mc_pc = "idle"
    /\ mc_out.kind = "error"
    /\ ~mc_guard

\* the first done chunk of a chunk sequence, its length plus one if none
FirstDone(chunks) ==
    IF \E i \in 1..Len(chunks) : chunks[i].done
    THEN CHOOSE i \in 1..Len(chunks) : chunks[i].done /\ \A j \in 1..(i - 1) : ~chunks[j].done
    ELSE Len(chunks) + 1

RECURSIVE Flatten(_)
Flatten(seqs) == IF seqs = <<>> THEN <<>> ELSE Head(seqs) \o Flatten(Tail(seqs))

\* the deltas before the done chunk, concatenated
DeltasBeforeDone(chunks) == Flatten([i \in 1..(FirstDone(chunks) - 1) |-> chunks[i].delta])

\* the tool calls before the done chunk, in order
ToolCallsBeforeDone(chunks) ==
    LET with == SelectSeq(SubSeq(chunks, 1, FirstDone(chunks) - 1),
                          LAMBDA c : c.tool_call # NoToolCall)
    IN  [i \in 1..Len(with) |-> with[i].tool_call]

\* C28: the derived invoke returns the deltas and the tool calls the
\* subclass's stream yielded before its done chunk; the derived stream
\* carries the content and the tool calls the subclass's invoke returned
\* and ends with the done chunk
C28_DerivedAgreesWithImplemented ==
    (mc_pc = "idle" /\ mc_out.kind \in {"response", "chunks"}) =>
        /\ mc_overrides = "stream" =>
               /\ mc_out.kind = "response"
               /\ mc_out.content = DeltasBeforeDone(mc_input.chunks)
               /\ mc_out.tool_calls = ToolCallsBeforeDone(mc_input.chunks)
        /\ mc_overrides = "invoke" =>
               /\ mc_out.kind = "chunks"
               /\ FirstDone(mc_out.chunks) = Len(mc_out.chunks)
               /\ DeltasBeforeDone(mc_out.chunks) = mc_input.content
               /\ ToolCallsBeforeDone(mc_out.chunks) = mc_input.tool_calls

\* a derived invoke has put two deltas together and dropped what came with
\* the done chunk
C28_Witness ==
    /\ mc_overrides = "stream"
    /\ mc_pc = "idle"
    /\ mc_out.kind = "response"
    /\ mc_out.content = <<"a", "b">>
    /\ Len(mc_input.chunks) = 3
    /\ mc_input.chunks[3].done
    /\ mc_input.chunks[3].delta # <<>>

\* ------------------------------------------------------------------------
\* Tool call arguments: _parse_openai_tool_calls, OpenAIModel.stream,
\* AnthropicModel.stream, GatewayResponseParser._parse_tool_calls,
\* GatewayChatModel._extract_content_blocks
\* ------------------------------------------------------------------------
\* A dict is the set of its <<key, value>> pairs.

\* argument strings an LLM backend sends
ArgStrings == {"{}", "{\"city\": \"Oslo\"}", "{\"city\": ", "city=Oslo", ""}

\* json.loads: the strings it accepts, and what it returns for them
IsValidJson(str) == str \in {"{}", "{\"city\": \"Oslo\"}"}

JsonLoads(str) == IF str = "{}" THEN {} ELSE {<<"city", "Oslo">>}

Parsers ==
    {"_parse_openai_tool_calls", "OpenAIModel.stream", "AnthropicModel.stream",
     "_parse_tool_calls", "_extract_content_blocks"}

\* the except branch of each parser that has one
ArgsOnDecodeError(parser, str) ==
    CASE parser \in {"_parse_openai_tool_calls", "OpenAIModel.stream"} -> {<<"_raw", str>>}
      [] parser = "AnthropicModel.stream" -> IF str # "" THEN {<<"_raw", str>>} ELSE {}
      [] parser = "_parse_tool_calls" -> {<<"raw", str>>}

\* the parser takes the next tool call, whose arguments are str
ParseToolCall(str) ==
    /\ pa_parser \in Parsers
    /\ ~pa_raised
    /\ Len(pa_results) < MaxRawCalls
    /\ IF IsValidJson(str)
       THEN /\ pa_results' = Append(pa_results, [arguments |-> str, args |-> JsonLoads(str)])
            /\ UNCHANGED pa_raised
       ELSE IF pa_parser = "_extract_content_blocks"
            THEN pa_raised' = TRUE /\ UNCHANGED pa_results
            ELSE /\ pa_results' = Append(pa_results,
                                         [arguments |-> str, args |-> ArgsOnDecodeError(pa_parser, str)])
                 /\ UNCHANGED pa_raised
    /\ UNCHANGED <<nonParseVars, pa_parser>>

ParseNext == \E str \in ArgStrings : ParseToolCall(str)

ParseOnlyInit == DockerInit(0, 0) /\ InvokeInit(0, 0) /\ McpInit(0, 0) /\ ShutdownInit /\ TokenInit(0) /\ NoBus /\ RunInit(0, 0) /\ ResumeInit(0) /\ LocalInit({}) /\ ThreadInit({}) /\ AclInit({NoTool}, {{}}) /\ AuthInit(0) /\ ModelStreamInit({"none"}) /\ ModelCallInit({"none"}) /\ ParseInit(Parsers) /\ ExecInit({0}) /\ LoadInit(FALSE) /\ LaunchInit({}) /\ GateInit({NoGatewayAnswer}) /\ SseInit(FALSE)

SpecParse == ParseOnlyInit /\ [][ParseNext]_vars

\* C29: no parser raises on a tool call, and a tool call whose arguments
\* are not valid JSON has args {_raw: the argument string}
C29_MalformedArgsKeptAsRaw ==
    /\ ~pa_raised
    /\ \A i \in 1..Len(pa_results) :
           ~IsValidJson(pa_results[i].arguments) =>
               pa_results[i].args = {<<"_raw", pa_results[i].arguments>>}

\* what the parsers do: those of models.py keep a malformed string under
\* _raw, except that AnthropicModel.stream turns the empty string into the
\* empty dict; the gateway parser keeps it under raw
C29_MalformedArgsPerParser ==
    \A i \in 1..Len(pa_results) :
        LET str == pa_results[i].arguments
            args == pa_results[i].args
        IN  ~IsValidJson(str) =>
                /\ pa_parser \in {"_parse_openai_tool_calls", "OpenAIModel.stream"} =>
                       args = {<<"_raw", str>>}
                /\ pa_parser = "AnthropicModel.stream" =>
                       args = (IF str = "" THEN {} ELSE {<<"_raw", str>>})
                /\ pa_parser = "_parse_tool_calls" => args = {<<"raw", str>>}

\* ------------------------------------------------------------------------
\* LocalSandboxBackend.execute, DockerSandboxBackend.execute: the output
\* ------------------------------------------------------------------------
\* A text is the sequence of its characters: subprocess.run(text=True)
\* decodes the streams, len() and slices count characters. "U+00E9" is a
\* character of two bytes in UTF-8, the others have one.

OutputLimits == {12, 13}

OutputChars == {"a", "U+00E9", "\n"}

ByteWidth(c) == IF c = "U+00E9" THEN 2 ELSE 1

RECURSIVE ByteLen(_)
ByteLen(text) == IF text = <<>> THEN 0 ELSE ByteWidth(Head(text)) + ByteLen(Tail(text))

\* n characters of a fixed text of which only the length matters
Filler(n) == [i \in 1..n |-> "."]

RECURSIVE TextsUpTo(_)
TextsUpTo(n) ==
    IF n = 0 THEN {<<>>}
    ELSE LET shorter == TextsUpTo(n - 1)
         IN  shorter \cup {Append(t, c) : t \in {s \in shorter : Len(s) = n - 1}, c \in OutputChars}

\* what a command may write to stdout: a short text, or ten characters and
\* a short text
StdoutTexts == TextsUpTo(MaxOutputChars) \cup {Filler(10) \o t : t \in TextsUpTo(MaxOutputChars)}

\* what a command may write to stderr: nothing, or one line
StderrTexts == {<<>>, <<"a", "\n">>}

\* str.rstrip and str.strip, for the whitespace of OutputChars
RECURSIVE RStrip(_)
RStrip(text) ==
    IF text # <<>> /\ text[Len(text)] = "\n" THEN RStrip(SubSeq(text, 1, Len(text) - 1))
    ELSE text

RECURSIVE LStrip(_)
LStrip(text) == IF text # <<>> /\ Head(text) = "\n" THEN LStrip(Tail(text)) ELSE text

\* "[stderr] " before the one line of stderr
StderrPart(stderr) == Filler(9) \o LStrip(RStrip(stderr))

\* stdout and the stderr lines joined by newlines, "<no output>" if both
\* are empty
CombinedOutput(stdout, stderr) ==
    IF stdout # <<>> /\ stderr # <<>> THEN stdout \o <<"\n">> \o StderrPart(stderr)
    ELSE IF stdout # <<>> THEN stdout
    ELSE IF stderr # <<>> THEN StderrPart(stderr)
    ELSE Filler(11)

\* "\n\n... Output truncated at {limit} bytes.", limit of two digits
TruncationNotice == <<"\n", "\n">> \o Filler(33)

\* "\n\nExit code: {returncode}", returncode of one digit
ExitCodeNotice == <<"\n", "\n">> \o Filler(12)

\* "if len(output) > self._max_output_bytes"
OutputTooLong(output, limit) == Len(output) > limit

\* the ExecuteResponse for a command that ran
ExecuteResponse(stdout, stderr, returncode, limit) ==
    LET output == CombinedOutput(stdout, stderr)
        truncated == OutputTooLong(output, limit)
        cut == IF truncated THEN SubSeq(output, 1, limit) \o TruncationNotice ELSE output
    IN  [output |-> IF returncode # 0 THEN RStrip(cut) \o ExitCodeNotice ELSE cut,
         exit_code |-> returncode,
         truncated |-> truncated]

\* execute: the command runs and ends
ExecuteCommand(stdout, stderr, returncode) ==
    /\ ex_limit > 0
    /\ ex_run' = [ran |-> TRUE, stdout |-> stdout, stderr |-> stderr, returncode |-> returncode]
    /\ ex_result' = ExecuteResponse(stdout, stderr, returncode, ex_limit)
    /\ UNCHANGED <<nonExecVars, ex_limit>>

\* execute: the command is empty, the container does not come up, the
\* command times out (exit code 124) or subprocess.run raises: an error
\* text is the output
ExecuteFails(exit_code) ==
    /\ ex_limit > 0
    /\ ex_run' = [ran |-> FALSE, stdout |-> <<>>, stderr |-> <<>>, returncode |-> 0]
    /\ ex_result' = [output |-> Filler(42), exit_code |-> exit_code, truncated |-> FALSE]
    /\ UNCHANGED <<nonExecVars, ex_limit>>

ExecNext ==
    \/ \E stdout \in StdoutTexts, stderr \in StderrTexts, returncode \in {0, 1} :
           ExecuteCommand(stdout, stderr, returncode)
    \/ \E exit_code \in {1, 124} : ExecuteFails(exit_code)

ExecOnlyInit == DockerInit(0, 0) /\ InvokeInit(0, 0) /\ McpInit(0, 0) /\ ShutdownInit /\ TokenInit(0) /\ NoBus /\ RunInit(0, 0) /\ ResumeInit(0) /\ LocalInit({}) /\ ThreadInit({}) /\ AclInit({NoTool}, {{}}) /\ AuthInit(0) /\ ModelStreamInit({"none"}) /\ ModelCallInit({"none"}) /\ ParseInit({"none"}) /\ ExecInit(OutputLimits) /\ LoadInit(FALSE) /\ LaunchInit({}) /\ GateInit({NoGatewayAnswer}) /\ SseInit(FALSE)

SpecExec == ExecOnlyInit /\ [][ExecNext]_vars

\* C30: the output of a command that ran has at most max_output_bytes
\* bytes, and truncated is true exactly when the command wrote more bytes
\* than that
C30_OutputWithinByteLimit ==
    ex_run.ran =>
        /\ ByteLen(ex_result.output) <= ex_limit
        /\ ex_result.truncated <=> (ByteLen(ex_run.stdout) + ByteLen(ex_run.stderr) > ex_limit)

\* what execute does: truncated tells that the combined text had more
\* characters than the limit, and then the output starts with the first
\* max_output_bytes characters of it, if they do not end in newlines that
\* the exit code notice strips, followed by the notice
C30_CutCountsCharacters ==
    ex_run.ran =>
        LET combined == CombinedOutput(ex_run.stdout, ex_run.stderr)
        IN  /\ ex_result.truncated <=> (Len(combined) > ex_limit)
            /\ ex_result.truncated =>
                   /\ Len(ex_result.output) > ex_limit
                   /\ SubSeq(ex_result.output, 1, ex_limit + 2)
                          = SubSeq(combined, 1, ex_limit) \o <<"\n", "\n">>
            /\ ~ex_result.truncated =>
                   /\ Len(ex_result.output) >= Len(RStrip(combined))
                   /\ SubSeq(ex_result.output, 1, Len(RStrip(combined))) = RStrip(combined)

\* ------------------------------------------------------------------------
\* load_agents_from_yaml, load_mcp_tools, register_template
\* ------------------------------------------------------------------------

\* the agents of the file, in the order of the file
LoadAgentIds == <<"a1", "a2">>

\* the tool the one MCP server of the file offers
McpToolOfFile == "mcp_wick_search"

\* "valid_tools = [t for t in requested_tools if t in available]"
ValidToolsUnfiltered(requested, available) == requested

ValidTools(requested, available) == SelectSeq(requested, LAMBDA t : t \in available)

\* "skipped = set(requested_tools) - available"
SkippedTools(requested, available) == {requested[i] : i \in 1..Len(requested)} \ available

\* load_mcp_tools: a server that answers gets its tools registered, one
\* that does not is skipped with a warning
LoadMcpTools(reachable) ==
    /\ ld_pc = "start"
    /\ ld_available' = IF reachable THEN ld_available \cup {McpToolOfFile} ELSE ld_available
    /\ ld_pc' = "agents"
    /\ UNCHANGED <<nonLoadVars, ld_yaml, ld_index, ld_templates, ld_warned, ld_loaded>>

\* one pass of the loop over the agents: register_template stores the
\* template with the tool names it is given (None, here <<>>, when none
\* is left), or raises on another part of the configuration, which the
\* loop logs
LoadAgent ==
    /\ ld_pc = "agents"
    /\ ld_index <= Len(LoadAgentIds)
    /\ LET agent_id == LoadAgentIds[ld_index]
           requested == ld_yaml[agent_id].tools
       IN  /\ ld_warned' = IF SkippedTools(requested, ld_available) # {}
                           THEN ld_warned \cup {agent_id} ELSE ld_warned
           /\ IF ld_yaml[agent_id].valid
              THEN /\ ld_templates' = [ld_templates EXCEPT ![agent_id] =
                                          [registered |-> TRUE,
                                           tool_names |-> ValidTools(requested, ld_available)]]
                   /\ ld_loaded' = ld_loaded + 1
              ELSE UNCHANGED <<ld_templates, ld_loaded>>
    /\ ld_index' = ld_index + 1
    /\ UNCHANGED <<nonLoadVars, ld_pc, ld_yaml, ld_available>>

\* "return loaded"
LoadReturns ==
    /\ ld_pc = "agents"
    /\ ld_index > Len(LoadAgentIds)
    /\ ld_pc' = "done"
    /\ UNCHANGED <<nonLoadVars, ld_yaml, ld_available, ld_index, ld_templates, ld_warned, ld_loaded>>

LoadNext ==
    \/ \E reachable \in BOOLEAN : LoadMcpTools(reachable)
    \/ LoadAgent
    \/ LoadReturns

LoadOnlyInit == DockerInit(0, 0) /\ InvokeInit(0, 0) /\ McpInit(0, 0) /\ ShutdownInit /\ TokenInit(0) /\ NoBus /\ RunInit(0, 0) /\ ResumeInit(0) /\ LocalInit({}) /\ ThreadInit({}) /\ AclInit({NoTool}, {{}}) /\ AuthInit(0) /\ ModelStreamInit({"none"}) /\ ModelCallInit({"none"}) /\ ParseInit({"none"}) /\ ExecInit({0}) /\ LoadInit(TRUE) /\ LaunchInit({}) /\ GateInit({NoGatewayAnswer}) /\ SseInit(FALSE)

SpecLoad == LoadOnlyInit /\ [][LoadNext]_vars

\* C31: when loading is done every agent of the file whose configuration
\* is otherwise accepted is registered, with exactly the tools it lists
\* that are in the registry, in the order it lists them, and with a
\* warning if it lists any other
C31_UnavailableToolsAreDropped ==
    ld_pc = "done" =>
        \A a \in DOMAIN ld_yaml :
            ld_yaml[a].valid =>
                LET requested == ld_yaml[a].tools
                    given == ld_templates[a].tool_names
                    listed == {requested[i] : i \in 1..Len(requested)}
                IN  /\ ld_templates[a].registered
                    /\ {given[i] : i \in 1..Len(given)} = listed \cap ld_available
                    /\ IsSubsequence(given, requested)
                    /\ (listed \ ld_available # {}) => a \in ld_warned

\* the MCP server was unreachable: a1, which lists its tool after the
\* calculator, is registered with the calculator alone and a warning, and a2
\* is registered as well
C31_Witness ==
    /\ ld_pc = "done"
    /\ McpToolOfFile \notin ld_available
    /\ ld_yaml["a1"].tools = <<"calculator", "mcp_wick_search">>
    /\ ld_templates["a1"] = [registered |-> TRUE, tool_names |-> <<"calculator">>]
    /\ "a1" \in ld_warned
    /\ ld_templates["a2"].registered
    /\ ld_loaded = 2

\* ------------------------------------------------------------------------
\* WickServer.start, WickServer.status, WickServer.stop, cmd_stop
\* ------------------------------------------------------------------------
\* A launcher is a Python process that uses WickServer or the wick-agent
\* command; all share the pid file of the user. Pids are not reused.

Launchers == DOMAIN la_pc

\* calls a launcher may make
OpsOf(l) == IF l = "cli" THEN MaxCliOps ELSE MaxLauncherOps

\* os.kill(pid, sig) succeeds
ProcessExists(pid) == procs[pid] \in {"running", "zombie"}

\* status()["running"]: the pid file names a process that can be signalled
StatusRunning == pidfile # 0 /\ ProcessExists(pidfile)

\* "if info['running']: return info['pid']"
ReturnsExistingNever(running) == FALSE

ReturnsExisting(running) == running

\* what SIGKILL does to a process
AfterSigkillNothing(state) == state

AfterSigkill(state) == IF state = "running" THEN "zombie" ELSE state

\* start(): the tool server thread is started
StartBegin(l) ==
    /\ la_pc[l] = "idle"
    /\ la_ops[l] < OpsOf(l)
    /\ la_ops' = [la_ops EXCEPT ![l] = @ + 1]
    /\ la_sidecar' = [la_sidecar EXCEPT ![l] = TRUE]
    /\ la_pc' = [la_pc EXCEPT ![l] = "start_status"]
    /\ la_ret' = [la_ret EXCEPT ![l] = 0]
    /\ la_detected' = [la_detected EXCEPT ![l] = FALSE]
    /\ la_spawned' = [la_spawned EXCEPT ![l] = FALSE]
    /\ UNCHANGED <<nonLaunchVars, pidfile, procs, la_pid, la_polls, la_signals>>

\* start(): status(), which removes a pid file that names no process, and
\* the return of the pid of a running server
StartStatus(l) ==
    /\ la_pc[l] = "start_status"
    /\ IF ReturnsExisting(StatusRunning)
       THEN /\ la_ret' = [la_ret EXCEPT ![l] = pidfile]
            /\ la_detected' = [la_detected EXCEPT ![l] = TRUE]
            /\ la_pc' = [la_pc EXCEPT ![l] = "idle"]
            /\ UNCHANGED pidfile
       ELSE /\ pidfile' = IF StatusRunning THEN pidfile ELSE 0
            /\ la_pc' = [la_pc EXCEPT ![l] = "start_spawn"]
            /\ UNCHANGED <<la_ret, la_detected>>
    /\ UNCHANGED <<nonLaunchVars, procs, la_pid, la_polls, la_spawned, la_signals, la_sidecar, la_ops>>

\* start(): subprocess.Popen of the server binary
StartSpawn(l) ==
    /\ la_pc[l] = "start_spawn"
    /\ \E p \in 1..MaxPids :
           /\ procs[p] = "unborn"
           /\ \A q \in 1..(p - 1) : procs[q] # "unborn"
           /\ procs' = [procs EXCEPT ![p] = "running"]
           /\ la_pid' = [la_pid EXCEPT ![l] = p]
    /\ la_spawned' = [la_spawned EXCEPT ![l] = TRUE]
    /\ la_pc' = [la_pc EXCEPT ![l] = "start_write"]
    /\ UNCHANGED <<nonLaunchVars, pidfile, la_polls, la_ret, la_detected, la_signals, la_sidecar, la_ops>>

\* start(): the pid file is written and the pid returned
StartWritePid(l) ==
    /\ la_pc[l] = "start_write"
    /\ pidfile' = la_pid[l]
    /\ la_ret' = [la_ret EXCEPT ![l] = la_pid[l]]
    /\ la_pc' = [la_pc EXCEPT ![l] = "idle"]
    /\ UNCHANGED <<nonLaunchVars, procs, la_pid, la_polls, la_detected, la_spawned, la_signals, la_sidecar, la_ops>>

\* stop(): the tool server is stopped and the pid file read; without a
\* pid file stop() returns
StopBegin(l) ==
    /\ la_pc[l] = "idle"
    /\ la_ops[l] < OpsOf(l)
    /\ la_ops' = [la_ops EXCEPT ![l] = @ + 1]
    /\ la_sidecar' = [la_sidecar EXCEPT ![l] = FALSE]
    /\ la_pid' = [la_pid EXCEPT ![l] = pidfile]
    /\ la_polls' = [la_polls EXCEPT ![l] = 0]
    /\ la_signals' = [la_signals EXCEPT ![l] = <<>>]
    /\ la_pc' = [la_pc EXCEPT ![l] = IF pidfile = 0 THEN "idle" ELSE "stop_term"]
    /\ UNCHANGED <<nonLaunchVars, pidfile, procs, la_ret, la_detected, la_spawned>>

\* stop(): os.kill(pid, SIGTERM); ProcessLookupError leads to "finally"
StopTerm(l) ==
    /\ la_pc[l] = "stop_term"
    /\ IF ProcessExists(la_pid[l])
       THEN /\ la_signals' = [la_signals EXCEPT ![l] = Append(@, "SIGTERM")]
            /\ la_pc' = [la_pc EXCEPT ![l] = "stop_poll"]
       ELSE /\ la_pc' = [la_pc EXCEPT ![l] = "stop_unlink"]
            /\ UNCHANGED la_signals
    /\ UNCHANGED <<nonLaunchVars, pidfile, procs, la_pid, la_polls, la_ret, la_detected, la_spawned, la_sidecar, la_ops>>

\* stop(): one pass of "for _ in range(50): os.kill(pid, 0); sleep(0.1)",
\* and after the last one os.kill(pid, SIGKILL)
StopPoll(l) ==
    /\ la_pc[l] = "stop_poll"
    /\ IF ~ProcessExists(la_pid[l])
       THEN /\ la_pc' = [la_pc EXCEPT ![l] = "stop_unlink"]
            /\ UNCHANGED <<procs, la_polls, la_signals>>
       ELSE IF la_polls[l] < StopPolls
       THEN /\ la_polls' = [la_polls EXCEPT ![l] = @ + 1]
            /\ UNCHANGED <<procs, la_pc, la_signals>>
       ELSE /\ procs' = [procs EXCEPT ![la_pid[l]] = AfterSigkill(@)]
            /\ la_signals' = [la_signals EXCEPT ![l] = Append(@, "SIGKILL")]
            /\ la_pc' = [la_pc EXCEPT ![l] = "stop_unlink"]
            /\ UNCHANGED la_polls
    /\ UNCHANGED <<nonLaunchVars, pidfile, la_pid, la_ret, la_detected, la_spawned, la_sidecar, la_ops>>

\* stop(): "finally" removes the pid file, stop() returns
StopUnlink(l) ==
    /\ la_pc[l] = "stop_unlink"
    /\ pidfile' = 0
    /\ la_polls' = [la_polls EXCEPT ![l] = 0]
    /\ la_pc' = [la_pc EXCEPT ![l] = "idle"]
    /\ UNCHANGED <<nonLaunchVars, procs, la_pid, la_ret, la_detected, la_spawned, la_signals, la_sidecar, la_ops>>

\* a server process ends, by itself or on SIGTERM; it stays a zombie until
\* its parent reaps it or ends
ServerExits(p) ==
    /\ procs[p] = "running"
    /\ procs' = [procs EXCEPT ![p] = "zombie"]
    /\ UNCHANGED <<nonLaunchVars, pidfile, la_pc, la_pid, la_polls, la_ret, la_detected, la_spawned, la_signals, la_sidecar, la_ops>>

ServerReaped(p) ==
    /\ procs[p] = "zombie"
    /\ procs' = [procs EXCEPT ![p] = "gone"]
    /\ UNCHANGED <<nonLaunchVars, pidfile, la_pc, la_pid, la_polls, la_ret, la_detected, la_spawned, la_signals, la_sidecar, la_ops>>

LaunchNext ==
    \/ \E l \in Launchers :
           \/ StartBegin(l)
           \/ StartStatus(l)
           \/ StartSpawn(l)
           \/ StartWritePid(l)
           \/ StopBegin(l)
           \/ StopTerm(l)
           \/ StopPoll(l)
           \/ StopUnlink(l)
    \/ \E p \in 1..MaxPids : ServerExits(p) \/ ServerReaped(p)

LaunchOnlyInit == DockerInit(0, 0) /\ InvokeInit(0, 0) /\ McpInit(0, 0) /\ ShutdownInit /\ TokenInit(0) /\ NoBus /\ RunInit(0, 0) /\ ResumeInit(0) /\ LocalInit({}) /\ ThreadInit({}) /\ AclInit({NoTool}, {{}}) /\ AuthInit(0) /\ ModelStreamInit({"none"}) /\ ModelCallInit({"none"}) /\ ParseInit({"none"}) /\ ExecInit({0}) /\ LoadInit(FALSE) /\ LaunchInit({"script", "cli"}) /\ GateInit({NoGatewayAnswer}) /\ SseInit(FALSE)

SpecLaunch == LaunchOnlyInit /\ [][LaunchNext]_vars

\* C32: when start() finds the pid file naming a running server it
\* returns that pid at once and no process is started; a start() that found
\* a server running has spawned none
C32_StartReturnsExistingPid ==
    /\ [](\A l \in Launchers : ~(la_detected[l] /\ la_spawned[l]))
    /\ [][\A l \in Launchers :
            (/\ la_pc[l] = "start_status"
             /\ la_pc'[l] # "start_status"
             /\ pidfile # 0
             /\ procs[pidfile] = "running")
            => (/\ la_pc'[l] = "idle"
                /\ la_ret'[l] = pidfile
                /\ procs' = procs
                /\ pidfile' = pidfile)]_vars

\* the script's start() has returned the pid of the server the command
\* line started, which still runs
C32_Witness ==
    /\ la_pc["script"] = "idle"
    /\ la_detected["script"]
    /\ la_ret["script"] # 0
    /\ la_ret["script"] = la_ret["cli"]
    /\ la_spawned["cli"]
    /\ procs[la_ret["script"]] = "running"
    /\ Cardinality({p \in 1..MaxPids : procs[p] # "unborn"}) = 1

ToolRegistry == << <<"calculate">>,
                   RegisteredName(<<"gw">>, <<"add">>),
                   RegisteredName(<<"gw">>, <<"get">>),
                   RegisteredName(<<"my", Underscore, "server">>, <<"add">>),
                   <<"mcp", Underscore, "probe">> >>

\* a name no tool is registered under
UnknownTool == <<"ghost">>

RequestableTools == {ToolRegistry[i] : i \in DOMAIN ToolRegistry} \cup {UnknownTool}

RECURSIVE ToolListsUpTo(_)
ToolListsUpTo(n) ==
    IF n = 0 THEN {<<>>}
    ELSE ToolListsUpTo(n - 1)
         \cup {Append(l, t) : l \in {x \in ToolListsUpTo(n - 1) : Len(x) = n - 1},
                              t \in RequestableTools}

\* bodies of PATCH /tools: without a "tools" list, or with one
PatchBodies ==
    {[has_list |-> FALSE, tools |-> <<>>]}
    \cup {[has_list |-> TRUE, tools |-> l] : l \in ToolListsUpTo(MaxPatchTools)}

\* the gateway is not configured, cannot be reached, or answers with a
\* status (and, with 200, the tool names the role may use)
GatewayToolAnswers ==
    {[kind |-> "not_configured", status |-> 0, tools |-> {}],
     [kind |-> "request_error", status |-> 0, tools |-> {}],
     [kind |-> "status", status |-> 401, tools |-> {}],
     [kind |-> "status", status |-> 500, tools |-> {}]}
    \cup {[kind |-> "status", status |-> 200, tools |-> a] : a \in AclAllowedSets}

\* a get_allowed_tools that lets every tool pass when the gateway fails
GetAllowedToolsOpen(answer) ==
    IF answer.kind = "status" /\ answer.status = 200 THEN answer.tools
    ELSE {<<"*">>}

\* get_allowed_tools(token)
GetAllowedTools(answer) ==
    IF answer.kind = "not_configured" THEN {<<"*">>}
    ELSE IF answer.kind = "request_error" THEN {}
    ELSE IF answer.status # 200 THEN {}
    ELSE answer.tools

\* [t for t in names if _is_tool_allowed(t, allowed)]
Permitted(names, allowed) == SelectSeq(names, LAMBDA t : IsToolAllowed(t, allowed))

\* [t for t in names if not _is_tool_allowed(t, allowed)]
Forbidden(names, allowed) == SelectSeq(names, LAMBDA t : ~IsToolAllowed(t, allowed))

\* [t for t in tool_names if t not in available]
Invalid(names) == SelectSeq(names, LAMBDA t : t \notin {ToolRegistry[i] : i \in DOMAIN ToolRegistry})

\* GET /tools/available
GetAvailableTools ==
    /\ gt_pc = "idle"
    /\ gt_pc' = "done"
    /\ gt_op' = "list"
    /\ gt_listed' = IF gt_answer.kind = "not_configured" THEN ToolRegistry
                    ELSE Permitted(ToolRegistry, GetAllowedTools(gt_answer))
    /\ gt_status' = 200
    /\ UNCHANGED <<nonGateVars, gt_answer, gt_request>>

\* the status PATCH /{agent_id}/tools answers body with; agent_known is
\* whether update_agent_tools finds the agent
PatchStatus(body, answer, agent_known) ==
    IF ~body.has_list THEN 422
    ELSE IF Invalid(body.tools) # <<>> THEN 400
    ELSE IF answer.kind # "not_configured"
            /\ Forbidden(body.tools, GetAllowedTools(answer)) # <<>> THEN 403
    ELSE IF agent_known THEN 200
    ELSE 404

\* PATCH /{agent_id}/tools
PatchAgentTools(body, agent_known) ==
    /\ gt_pc = "idle"
    /\ gt_pc' = "done"
    /\ gt_op' = "patch"
    /\ gt_request' = body
    /\ gt_status' = PatchStatus(body, gt_answer, agent_known)
    /\ UNCHANGED <<nonGateVars, gt_answer, gt_listed>>

GateNext ==
    \/ GetAvailableTools
    \/ \E body \in PatchBodies, agent_known \in BOOLEAN : PatchAgentTools(body, agent_known)

GateOnlyInit == DockerInit(0, 0) /\ InvokeInit(0, 0) /\ McpInit(0, 0) /\ ShutdownInit /\ TokenInit(0) /\ NoBus /\ RunInit(0, 0) /\ ResumeInit(0) /\ LocalInit({}) /\ ThreadInit({}) /\ AclInit({NoTool}, {{}}) /\ AuthInit(0) /\ ModelStreamInit({"none"}) /\ ModelCallInit({"none"}) /\ ParseInit({"none"}) /\ ExecInit({0}) /\ LoadInit(FALSE) /\ LaunchInit({}) /\ GateInit(GatewayToolAnswers) /\ SseInit(FALSE)

SpecGate == GateOnlyInit /\ [][GateNext]_vars

\* the gateway's tool-list request raised or came back with another status
\* than 200
GatewayFailed(answer) ==
    \/ answer.kind = "request_error"
    \/ answer.kind = "status" /\ answer.status # 200

\* no name of the list begins with "mcp_"
NoMcpTool(names) == \A i \in DOMAIN names : ~StartsWithMcp(names[i])

\* C38: when the gateway's tool-list request fails, GET /tools/available
\* lists no tool with the mcp_ prefix and PATCH /tools accepts no body
\* that names one
C38_AclFailsClosed ==
    (gt_pc = "done" /\ GatewayFailed(gt_answer)) =>
        /\ gt_op = "list" => NoMcpTool(gt_listed)
        /\ (gt_op = "patch" /\ gt_status = 200) => NoMcpTool(gt_request.tools)

\* with the gateway failing, a PATCH that names an MCP tool was refused
C38_Witness ==
    /\ gt_pc = "done" /\ GatewayFailed(gt_answer)
    /\ gt_op = "patch"
    /\ gt_status = 403
    /\ ~NoMcpTool(gt_request.tools)

\* ------------------------------------------------------------------------
\* The SSE parser of the SDK client: _parse_sse and _flush_event
\* ------------------------------------------------------------------------
\* A line is a sequence of pieces: the field prefixes "event:" and "data:",
\* the space, and runs of other characters.

\* lines a server may send: the blank line, event and data fields with and
\* without surrounding spaces, a data field with no value, and a comment
SseLines == { <<>>,
              <<"event:", "a">>,
              <<"event:", " ", "b">>,
              <<"data:", "1">>,
              <<"data:", " ", "x", " ">>,
              <<"data:">>,
              <<":", "ping">> }

\* line.startswith(prefix)
StartsWith(line, prefix) == line # <<>> /\ Head(line) = prefix

\* str.strip() of the spaces
RECURSIVE SseStrip(_)
SseStrip(text) ==
    IF text # <<>> /\ Head(text) = " " THEN SseStrip(Tail(text))
    ELSE IF text # <<>> /\ text[Len(text)] = " " THEN SseStrip(SubSeq(text, 1, Len(text) - 1))
    ELSE text

\* "\n".join(data_lines)
RECURSIVE JoinLines(_)
JoinLines(values) ==
    IF values = <<>> THEN <<>>
    ELSE IF Len(values) = 1 THEN Head(values)
    ELSE Head(values) \o <<"\n">> \o JoinLines(Tail(values))

\* json.loads(raw) succeeds: of the texts of SseLines only a number is JSON
SseIsJson(raw) == raw = <<"1">>

\* json.loads(raw), or raw itself on JSONDecodeError
SseData(raw) == [json |-> SseIsJson(raw), text |-> raw]

\* _flush_event: the events to yield, none when there are no data lines
FlushEvent(event_type, data_lines) ==
    IF data_lines = <<>> THEN <<>>
    ELSE << [event |-> event_type, data |-> SseData(JoinLines(data_lines))] >>

\* one iteration of the for loop on the parser state st
SseStep(st, line) ==
    IF StartsWith(line, "event:")
    THEN [st EXCEPT !.event_type = SseStrip(Tail(line))]
    ELSE IF StartsWith(line, "data:")
    THEN [st EXCEPT !.data_lines = Append(@, SseStrip(Tail(line)))]
    ELSE IF line = <<>>
    THEN [event_type |-> NoEventType,
          data_lines |-> <<>>,
          yielded |-> st.yielded \o FlushEvent(st.event_type, st.data_lines)]
    ELSE st

SseState == [event_type |-> ps_event_type, data_lines |-> ps_data_lines,
             yielded |-> ps_yielded]

\* the lines that follow the stream when nothing is chained to it
SentinelNone == <<>>

\* itertools.chain(response.iter_lines(...), [""])
Sentinel == << <<>> >>

RECURSIVE SseRun(_, _)
SseRun(st, todo) == IF todo = <<>> THEN st ELSE SseRun(SseStep(st, Head(todo)), Tail(todo))

\* iter_lines yields the next line of the response
ParseSseLine(line) ==
    /\ ps_pc = "reading"
    /\ Len(ps_stream) < MaxSseLines
    /\ ps_stream' = Append(ps_stream, line)
    /\ ps_event_type' = SseStep(SseState, line).event_type
    /\ ps_data_lines' = SseStep(SseState, line).data_lines
    /\ ps_yielded' = SseStep(SseState, line).yielded
    /\ UNCHANGED <<nonSseVars, ps_pc>>

\* iter_lines is exhausted: the chained sentinel is read and the loop ends
SseStreamEnds ==
    /\ ps_pc = "reading"
    /\ ps_pc' = "done"
    /\ ps_event_type' = SseRun(SseState, Sentinel).event_type
    /\ ps_data_lines' = SseRun(SseState, Sentinel).data_lines
    /\ ps_yielded' = SseRun(SseState, Sentinel).yielded
    /\ UNCHANGED <<nonSseVars, ps_stream>>

SseNext ==
    \/ \E line \in SseLines : ParseSseLine(line)
    \/ SseStreamEnds

SseOnlyInit == DockerInit(0, 0) /\ InvokeInit(0, 0) /\ McpInit(0, 0) /\ ShutdownInit /\ TokenInit(0) /\ NoBus /\ RunInit(0, 0) /\ ResumeInit(0) /\ LocalInit({}) /\ ThreadInit({}) /\ AclInit({NoTool}, {{}}) /\ AuthInit(0) /\ ModelStreamInit({"none"}) /\ ModelCallInit({"none"}) /\ ParseInit({"none"}) /\ ExecInit({0}) /\ LoadInit(FALSE) /\ LaunchInit({}) /\ GateInit({NoGatewayAnswer}) /\ SseInit(TRUE)

SpecSse == SseOnlyInit /\ [][SseNext]_vars

\* the frames of a stream: the runs of lines between blank lines, the last
\* one being what follows the last blank line
RECURSIVE SplitFrames(_, _)
SplitFrames(todo, cur) ==
    IF todo = <<>> THEN <<cur>>
    ELSE IF Head(todo) = <<>> THEN <<cur>> \o SplitFrames(Tail(todo), <<>>)
    ELSE SplitFrames(Tail(todo), Append(cur, Head(todo)))

\* the values of the data lines of a frame, in order
FrameData(frame) ==
    LET ds == SelectSeq(frame, LAMBDA l : StartsWith(l, "data:"))
    IN [i \in DOMAIN ds |-> SseStrip(Tail(ds[i]))]

\* the event name of a frame: that of its last event line, None without one
FrameName(frame) ==
    LET es == SelectSeq(frame, LAMBDA l : StartsWith(l, "event:"))
    IN IF es = <<>> THEN NoEventType ELSE SseStrip(Tail(es[Len(es)]))

\* one event for every frame with a data line, in the order of the frames
RECURSIVE EventsOf(_)
EventsOf(frames) ==
    IF frames = <<>> THEN <<>>
    ELSE (IF FrameData(Head(frames)) = <<>> THEN <<>>
          ELSE << [event |-> FrameName(Head(frames)),
                   data |-> SseData(JoinLines(FrameData(Head(frames))))] >>)
         \o EventsOf(Tail(frames))

\* the frames that a blank line has closed
ClosedFrames(stream) ==
    LET fs == SplitFrames(stream, <<>>) IN SubSeq(fs, 1, Len(fs) - 1)

\* C40: the parser yields one event for each frame with a data line, in
\* stream order, with the frame's own event name and its data values
\* joined: for the closed frames while the stream is read, and for all
\* frames, the last one included, once the stream has ended
C40_OneEventPerFrame ==
    /\ ps_pc = "reading" => ps_yielded = EventsOf(ClosedFrames(ps_stream))
    /\ ps_pc = "done" => ps_yielded = EventsOf(SplitFrames(ps_stream, <<>>))

\* a stream that ended without a blank line, whose last frame has no
\* event name while the frame before it had one, and both were yielded
C40_Witness ==
    /\ ps_pc = "done"
    /\ ps_stream # <<>> /\ ps_stream[Len(ps_stream)] # <<>>
    /\ Len(ps_yielded) = 2
    /\ ps_yielded[1].event # NoEventType
    /\ ps_yielded[2].event = NoEventType

====
